---- MODULE Spec2Model ----
(***************************************************************************)
(* A model of the device-management and upload layer of the renderer:      *)
(* physical-device selection, queue negotiation, swapchain creation and    *)
(* recreation (labutils/vulkan_window.cpp), the staged upload of meshes    *)
(* and textures, and the mip-chain generation (vkimage / main).            *)
(***************************************************************************)
EXTENDS Integers, Sequences, FiniteSets, TLC

(***************************************************************************)
(* Bounds of the model.                                                    *)
(***************************************************************************)
MaxAdapters == 2
MaxFamilies == 2
MaxFormats == 2
MaxImages == 2
MaxRecreate == 1
MaxIterations == 3
MaxObjects == 3
MaxOwners == 2

(***************************************************************************)
(* Program constants.                                                      *)
(***************************************************************************)
VK_NULL_HANDLE == 0

(***************************************************************************)
(* std::uint32_t: a pair <<high half, low half>> of 16-bit halves, so that *)
(* the full 32-bit width is kept.                                          *)
(***************************************************************************)
HalfWord == 2^16
Halves == 0..(HalfWord - 1)
U32(n) == <<n \div HalfWord, n % HalfWord>>
UINT32_MAX == <<HalfWord - 1, HalfWord - 1>>
U32Less(a, b) == a[1] < b[1] \/ (a[1] = b[1] /\ a[2] < b[2])
U32Inc(a) ==
    IF a[2] + 1 < HalfWord THEN <<a[1], a[2] + 1>>
    ELSE IF a[1] + 1 < HalfWord THEN <<a[1] + 1, 0>>
    ELSE <<0, 0>>
U32Small(a) == a[2]
U32Max(a, b) == IF U32Less(a, b) THEN b ELSE a

Max(a, b) == IF a < b THEN b ELSE a
Min(a, b) == IF a < b THEN a ELSE b
Range(s) == {s[i] : i \in 1..Len(s)}
SeqsUpTo(S, lo, hi) == UNION {[1..n -> S] : n \in lo..hi}

(***************************************************************************)
(* What the driver reports about an adapter (VkPhysicalDeviceProperties,   *)
(* the device extensions, the queue families and their surface support).   *)
(***************************************************************************)
ApiVersions == {<<0, 3>>, <<1, 1>>, <<1, 2>>}
DeviceTypes == {"DISCRETE_GPU", "INTEGRATED_GPU", "CPU"}
ExtensionSets == {{}, {"VK_KHR_swapchain"}}
QueueFlagSets == {{"TRANSFER"}, {"GRAPHICS", "TRANSFER"}}
QueueFamilies == [queueFlags : QueueFlagSets, present : BOOLEAN]
Adapters ==
    [apiVersion : ApiVersions, deviceType : DeviceTypes,
     extensions : ExtensionSets,
     families : SeqsUpTo(QueueFamilies, 0, MaxFamilies)]
NoProps ==
    [apiVersion |-> <<0, 0>>, deviceType |-> "CPU", extensions |-> {},
     families |-> <<>>]

DriverResults == {"VK_SUCCESS", "VK_ERROR_OUT_OF_HOST_MEMORY"}

(***************************************************************************)
(* find_queue_family: the index (from 0) of the first family holding all   *)
(* the flags and, when a surface is given, able to present to it; the      *)
(* optional is a sequence of at most one element.                          *)
(***************************************************************************)
RECURSIVE FindFamilyFrom(_, _, _, _)
FindFamilyFrom(families, i, aQueueFlags, withSurface) ==
    IF i > Len(families) THEN <<>>
    ELSE IF aQueueFlags \subseteq families[i].queueFlags
            /\ (~withSurface \/ families[i].present)
         THEN <<i - 1>>
         ELSE FindFamilyFrom(families, i + 1, aQueueFlags, withSurface)

find_queue_family(aPhysicalDev, aQueueFlags, withSurface) ==
    FindFamilyFrom(aPhysicalDev.families, 1, aQueueFlags, withSurface)

(***************************************************************************)
(* score_device: -1 rejects the adapter.                                   *)
(***************************************************************************)
VersionTooLow(apiVersion) ==
    LET major == apiVersion[1]
        minor == apiVersion[2]
    IN  major < 1 \/ (major = 1 /\ minor < 2)

TypeScore(deviceType) ==
    IF deviceType = "DISCRETE_GPU" THEN 500
    ELSE IF deviceType = "INTEGRATED_GPU" THEN 100
    ELSE 0

score_device_SkipsExtension(aPhysicalDev) ==
    IF VersionTooLow(aPhysicalDev.apiVersion) THEN -1
    ELSE IF find_queue_family(aPhysicalDev, {}, TRUE) = <<>> THEN -1
    ELSE IF find_queue_family(aPhysicalDev, {"GRAPHICS"}, FALSE) = <<>> THEN -1
    ELSE TypeScore(aPhysicalDev.deviceType)

score_device_NoPresentCheck(aPhysicalDev) ==
    IF VersionTooLow(aPhysicalDev.apiVersion) THEN -1
    ELSE IF "VK_KHR_swapchain" \notin aPhysicalDev.extensions THEN -1
    ELSE IF find_queue_family(aPhysicalDev, {"GRAPHICS"}, FALSE) = <<>> THEN -1
    ELSE TypeScore(aPhysicalDev.deviceType)

score_device(aPhysicalDev) ==
    IF VersionTooLow(aPhysicalDev.apiVersion) THEN -1
    ELSE IF "VK_KHR_swapchain" \notin aPhysicalDev.extensions THEN -1
    ELSE IF find_queue_family(aPhysicalDev, {}, TRUE) = <<>> THEN -1
    ELSE IF find_queue_family(aPhysicalDev, {"GRAPHICS"}, FALSE) = <<>> THEN -1
    ELSE TypeScore(aPhysicalDev.deviceType)

(***************************************************************************)
(* The update of the best candidate in the loop of select_device.          *)
(***************************************************************************)
BetterScore_OrEqual(score, best) == score >= best

BetterScore(score, best) == score > best

(***************************************************************************)
(* What the driver reports about the surface.                              *)
(***************************************************************************)
Formats == {"R8G8B8A8_SRGB", "B8G8R8A8_SRGB", "R8G8B8A8_UNORM"}
ColorSpaces == {"SRGB_NONLINEAR", "EXTENDED_SRGB_LINEAR"}
SurfaceFormats == [format : Formats, colorSpace : ColorSpaces]
FormatLists == SeqsUpTo(SurfaceFormats, 1, MaxFormats)
PresentModeSets == {{"FIFO", "MAILBOX"}, {"FIFO", "FIFO_RELAXED"}}
Extent(w, h) == [width |-> U32(w), height |-> U32(h)]
UndefinedExtent == [width |-> UINT32_MAX, height |-> UINT32_MAX]
CurrentExtents == {Extent(1280, 720), UndefinedExtent}
FramebufferSizes == {<<1280, 720>>, <<5000, 0>>}
SurfaceCaps ==
    {c \in [minImageCount : {U32(n) : n \in 1..(MaxImages - 1)},
            maxImageCount : {U32(n) : n \in 0..MaxImages},
            currentExtent : CurrentExtents,
            minImageExtent : {Extent(1, 1)}, maxImageExtent : {Extent(4096, 4096)}] :
        c.maxImageCount = U32(0) \/ ~U32Less(c.maxImageCount, c.minImageCount)}

(***************************************************************************)
(* create_swapchain: the choices it makes from the driver's answers.       *)
(***************************************************************************)
PreferredFormat(fmt) ==
    \/ fmt.format = "R8G8B8A8_SRGB" /\ fmt.colorSpace = "SRGB_NONLINEAR"
    \/ fmt.format = "B8G8R8A8_SRGB" /\ fmt.colorSpace = "SRGB_NONLINEAR"

RECURSIVE FirstPreferredFrom(_, _)
FirstPreferredFrom(formats, i) ==
    IF i > Len(formats) THEN formats[1]
    ELSE IF PreferredFormat(formats[i]) THEN formats[i]
    ELSE FirstPreferredFrom(formats, i + 1)

PickSurfaceFormat(formats) == FirstPreferredFrom(formats, 1)

PickPresentMode(modes) ==
    IF "FIFO_RELAXED" \in modes THEN "FIFO_RELAXED" ELSE "FIFO"

PickImageCount_NoMaximum(caps) ==
    LET wanted == U32Inc(caps.minImageCount)
    IN  IF U32Less(U32(2), wanted) THEN wanted ELSE U32(2)

PickImageCount_AtLeastMinimum(caps) ==
    LET wanted == U32Inc(caps.minImageCount)
        atLeast == IF U32Less(U32(2), wanted) THEN wanted ELSE U32(2)
        atMost == IF U32Less(U32(0), caps.maxImageCount)
                     /\ U32Less(caps.maxImageCount, atLeast)
                  THEN caps.maxImageCount
                  ELSE atLeast
    IN  U32Max(atMost, caps.minImageCount)

PickImageCount(caps) ==
    LET wanted == U32Inc(caps.minImageCount)
        atLeast == IF U32Less(U32(2), wanted) THEN wanted ELSE U32(2)
    IN  IF U32Less(U32(0), caps.maxImageCount) /\ U32Less(caps.maxImageCount, atLeast)
        THEN caps.maxImageCount
        ELSE atLeast

Clamp(v, lo, hi) == IF U32Less(v, lo) THEN lo ELSE IF U32Less(hi, v) THEN hi ELSE v

PickExtent_Unclamped(caps, framebuffer) ==
    IF caps.currentExtent.width = UINT32_MAX
    THEN [width |-> U32(framebuffer[1]), height |-> U32(framebuffer[2])]
    ELSE caps.currentExtent

PickExtent(caps, framebuffer) ==
    IF caps.currentExtent.width = UINT32_MAX
    THEN [width |-> Clamp(U32(framebuffer[1]), caps.minImageExtent.width,
                          caps.maxImageExtent.width),
          height |-> Clamp(U32(framebuffer[2]), caps.minImageExtent.height,
                           caps.maxImageExtent.height)]
    ELSE caps.currentExtent

SharingMode(aQueueFamilyIndices) ==
    IF Len(aQueueFamilyIndices) <= 1 THEN "EXCLUSIVE" ELSE "CONCURRENT"

(***************************************************************************)
(* The state: the position of main, the VulkanWindow, the locals of the    *)
(* running call and the objects the driver keeps alive.                    *)
(***************************************************************************)
VARIABLES
    pc,           \* position of the program
    caller,       \* the function create_swapchain was last called from
    window,       \* the VulkanWindow (ret in make_vulkan_window, window in main)
    numDevices,   \* select_device: number of enumerated adapters
    devIdx,       \* select_device: adapters scored so far
    bestScore,    \* select_device: bestScore
    bestDevice,   \* select_device: bestDevice (handle = position from 1)
    scored,       \* select_device: what each adapter was and the score it got
    physProps,    \* what the driver answers about the adapter bestDevice
    cs,           \* create_swapchain: its arguments and locals
    old,          \* recreate_swapchain: oldSwapchain, oldFormat, oldExtent
    pre,          \* the VulkanWindow as it was when recreate_swapchain was called
    changes,      \* recreate_swapchain: the SwapChanges it returned
    recreations,  \* calls of recreate_swapchain so far
    nextChain,    \* driver: the next swapchain handle
    drvImages,    \* driver: number of images of the newest swapchain
    liveChains,   \* driver: swapchains created and not destroyed
    liveViews,    \* driver: image views created and not destroyed
    failedCalls,  \* driver calls that returned a status other than VK_SUCCESS
    thrownBy,     \* the function that threw the lut::Error in flight
    exitCode,     \* what main returned
    mipPc,        \* compute_mip_level_count: calls made
    mipA,         \* compute_mip_level_count: arguments and result of a call
    mipB,         \* compute_mip_level_count: arguments and result of another call
    upPc,         \* create_mesh / load_image_texture2d: position
    upDims,       \* load_image_texture2d: baseWidth, baseHeight
    cmds,         \* the commands recorded into the upload command buffer
    gpuPos,       \* device: commands of the submitted buffer executed so far
    fence,        \* device: state of the fence uploadComplete
    fenceObserved,\* host: vkWaitForFences returned VK_SUCCESS for uploadComplete
    stagingLive,  \* the staging buffers exist
    imageLevels,  \* mip levels the image was created with
    layouts,      \* device: layout of each mip level of the image
    written,      \* device: mip levels (or mesh buffers) whose contents were written
    levelExtent,  \* device: extent written into each mip level
    upFn,         \* the uploading function that is running
    upCalls,      \* queue and fence calls the function made, with their results
    madeVisible,  \* device: mesh buffers a barrier made visible, and to what
    gpuFaults,    \* device: commands executed on a resource in the wrong state
    upDone,       \* the uploading functions that have returned
    deviceInfo,   \* driver: the queue infos vkCreateDevice was given
    chainInfos,   \* driver: the create info of each swapchain, by handle
    lpPc,         \* render loop: position
    recreateSwapchain, \* render loop: the flag recreateSwapchain
    iterations,   \* render loop: iterations begun
    log,          \* render loop: the calls made, with their results
    imageIndex,   \* render loop: imageIndex, as the last acquisition left it
    cbfences,     \* render loop: the state of each fence of cbfences
    imguicbfences,\* render loop: the state of each fence of imguicbfences
    framebuffers, \* render loop: size of framebuffers, and their render pass
    renderPass,   \* render loop: the render pass object renderPass holds
    pipe,         \* render loop: the render pass pipe and alphaPipe were created with
    inFlight,     \* device: submitted command buffers not known to have completed
    seen,         \* render loop: what its waits, recordings and recreations met
    ownKind,      \* the class whose objects are exercised: VulkanWindow or Image
    objs,         \* the objects of that class: their state and their members
    owners,       \* objects constructed with handles of their own so far
    released,     \* how often each native handle was handed to its release call
    calls         \* the release calls of the destructor that ran last, in order

vars ==
    <<pc, caller, window, numDevices, devIdx, bestScore, bestDevice, scored,
      physProps, cs, old, pre, changes, recreations, nextChain, drvImages,
      liveChains, liveViews, failedCalls, thrownBy, exitCode,
      mipPc, mipA, mipB, upPc, upDims, cmds, gpuPos, fence, fenceObserved,
      stagingLive, imageLevels, layouts, written, levelExtent, upFn, upCalls,
      madeVisible, gpuFaults, upDone, deviceInfo, chainInfos,
      lpPc, recreateSwapchain, iterations, log,
      imageIndex, cbfences, imguicbfences, framebuffers, renderPass, pipe, inFlight, seen,
      ownKind, objs, owners, released, calls>>

requestVars == <<deviceInfo, chainInfos>>
windowVars ==
    <<pc, caller, window, numDevices, devIdx, bestScore, bestDevice, scored,
      physProps, cs, old, pre, changes, recreations, nextChain, drvImages,
      liveChains, liveViews, failedCalls, thrownBy, exitCode, requestVars>>
frameVars ==
    <<imageIndex, cbfences, imguicbfences, framebuffers, renderPass, pipe, inFlight, seen>>
loopVars == <<lpPc, recreateSwapchain, iterations, log, frameVars>>
ownVars == <<ownKind, objs, owners, released, calls>>
mipVars == <<mipPc, mipA, mipB>>
uploadVars ==
    <<upPc, upDims, cmds, gpuPos, fence, fenceObserved, stagingLive, imageLevels,
      layouts, written, levelExtent, upFn, upCalls, madeVisible, gpuFaults,
      upDone>>
selectVars == <<numDevices, devIdx, bestScore, bestDevice, scored, physProps>>
recreateVars == <<old, pre, changes, recreations>>
driverVars == <<nextChain, drvImages, liveChains, liveViews>>

\* a VkQueue: the queue vkGetDeviceQueue hands out for a family and an index
NullQueue == [family |-> -1, index |-> -1]
DeviceQueue(family, index) == [family |-> family, index |-> index]

NewWindow ==
    [physicalDevice |-> VK_NULL_HANDLE, device |-> VK_NULL_HANDLE,
     graphicsFamilyIndex |-> 0, presentFamilyIndex |-> 0,
     graphicsQueue |-> NullQueue, presentQueue |-> NullQueue,
     swapchain |-> VK_NULL_HANDLE, swapchainFormat |-> "UNDEFINED",
     swapchainExtent |-> Extent(0, 0), swapImages |-> <<>>, swapViews |-> <<>>]

NoCaps ==
    [minImageCount |-> U32(0), maxImageCount |-> U32(0),
     currentExtent |-> Extent(0, 0), minImageExtent |-> Extent(0, 0),
     maxImageExtent |-> Extent(0, 0)]

NoCs ==
    [queueFamilyIndices |-> <<>>, format |-> "UNDEFINED", presentMode |-> "FIFO",
     caps |-> NoCaps, framebuffer |-> <<0, 0>>,
     imageCount |-> U32(0), extent |-> Extent(0, 0)]

NoOld ==
    [swapchain |-> VK_NULL_HANDLE, format |-> "UNDEFINED", extent |-> Extent(0, 0)]

NoChanges == [changedSize |-> FALSE, changedFormat |-> FALSE]

ImageOf(chain, i) == [chain |-> chain, index |-> i]
ViewOf(image) == [image |-> image]

WindowStart ==
    /\ pc = "select_device"
    /\ caller = "make_vulkan_window"
    /\ window = NewWindow
    /\ numDevices = 0
    /\ devIdx = 0
    /\ bestScore = -1
    /\ bestDevice = VK_NULL_HANDLE
    /\ scored = <<>>
    /\ physProps = NoProps
    /\ cs = NoCs
    /\ old = NoOld
    /\ pre = NewWindow
    /\ changes = NoChanges
    /\ recreations = 0
    /\ nextChain = 1
    /\ drvImages = 0
    /\ liveChains = {}
    /\ liveViews = {}
    /\ failedCalls = {}
    /\ thrownBy = "none"
    /\ exitCode = -1
    /\ deviceInfo = <<>>
    /\ chainInfos = <<>>

NoFramebuffers == [size |-> 0, renderPass |-> VK_NULL_HANDLE]

LoopIdle ==
    /\ lpPc = "idle"
    /\ recreateSwapchain = FALSE
    /\ iterations = 0
    /\ log = <<>>
    /\ imageIndex = 0
    /\ cbfences = <<>>
    /\ imguicbfences = <<>>
    /\ framebuffers = NoFramebuffers
    /\ renderPass = VK_NULL_HANDLE
    /\ pipe = VK_NULL_HANDLE
    /\ inFlight = {}
    /\ seen = {}

OwnIdle ==
    /\ ownKind = "none"
    /\ objs = <<>>
    /\ owners = 0
    /\ released = <<>>
    /\ calls = <<>>

NoMip == [width |-> <<0, 0>>, height |-> <<0, 0>>, levels |-> 0]

MipIdle ==
    /\ mipPc = "idle"
    /\ mipA = NoMip
    /\ mipB = NoMip

UploadIdle ==
    /\ upPc = "idle"
    /\ upDims = <<0, 0>>
    /\ cmds = <<>>
    /\ gpuPos = 0
    /\ fence = "none"
    /\ fenceObserved = FALSE
    /\ stagingLive = FALSE
    /\ imageLevels = 0
    /\ layouts = <<>>
    /\ written = {}
    /\ levelExtent = <<>>
    /\ upFn = "none"
    /\ upCalls = <<>>
    /\ madeVisible = {}
    /\ gpuFaults = {}
    /\ upDone = {}

Init == WindowStart /\ MipIdle /\ UploadIdle /\ LoopIdle /\ OwnIdle

(***************************************************************************)
(* select_device                                                           *)
(***************************************************************************)
Usable(a) ==
    /\ a.apiVersion[1] > 1 \/ (a.apiVersion[1] = 1 /\ a.apiVersion[2] >= 2)
    /\ "VK_KHR_swapchain" \in a.extensions
    /\ \E i \in 1..Len(a.families) : a.families[i].present
    /\ \E i \in 1..Len(a.families) : "GRAPHICS" \in a.families[i].queueFlags

EnumeratePhysicalDevices ==
    /\ pc = "select_device"
    /\ \E res \in DriverResults, n \in 0..MaxAdapters :
        IF res # "VK_SUCCESS"
        THEN /\ pc' = "threw"
             /\ thrownBy' = "select_device"
             /\ failedCalls' = failedCalls \cup {"vkEnumeratePhysicalDevices"}
             /\ UNCHANGED selectVars
        ELSE /\ pc' = "select_loop"
             /\ numDevices' = n
             /\ devIdx' = 0
             /\ bestScore' = -1
             /\ bestDevice' = VK_NULL_HANDLE
             /\ UNCHANGED <<scored, physProps, thrownBy, failedCalls>>
    /\ UNCHANGED <<caller, window, cs, recreateVars, driverVars, exitCode>>
    /\ UNCHANGED <<requestVars, mipVars, ownVars, uploadVars, loopVars>>

ScoreNextDevice ==
    /\ pc = "select_loop"
    /\ devIdx < numDevices
    /\ \E a \in Adapters :
        LET score == score_device(a)
            device == devIdx + 1
        IN  /\ scored' = Append(scored, [score |-> score, usable |-> Usable(a),
                                         deviceType |-> a.deviceType])
            /\ IF BetterScore(score, bestScore)
               THEN /\ bestScore' = score
                    /\ bestDevice' = device
                    /\ physProps' = a
               ELSE UNCHANGED <<bestScore, bestDevice, physProps>>
    /\ devIdx' = devIdx + 1
    /\ UNCHANGED <<pc, caller, window, numDevices, cs, recreateVars, driverVars,
                   failedCalls, thrownBy, exitCode>>
    /\ UNCHANGED <<requestVars, mipVars, ownVars, uploadVars, loopVars>>

SelectDeviceReturn ==
    /\ pc = "select_loop"
    /\ devIdx = numDevices
    /\ window' = [window EXCEPT !.physicalDevice = bestDevice]
    /\ pc' = "device_selected"
    /\ UNCHANGED <<caller, selectVars, cs, recreateVars, driverVars, failedCalls,
                   thrownBy, exitCode>>
    /\ UNCHANGED <<requestVars, mipVars, ownVars, uploadVars, loopVars>>

(***************************************************************************)
(* make_vulkan_window, after select_device: the check of the selected      *)
(* adapter, the queue families and the logical device.                     *)
(***************************************************************************)
NoSuitableDevice ==
    /\ pc = "device_selected"
    /\ window.physicalDevice = VK_NULL_HANDLE
    /\ pc' = "threw"
    /\ thrownBy' = "make_vulkan_window"
    /\ UNCHANGED <<caller, window, selectVars, cs, recreateVars, driverVars,
                   failedCalls, exitCode>>
    /\ UNCHANGED <<requestVars, mipVars, ownVars, uploadVars, loopVars>>

\* create_device: one VkDeviceQueueCreateInfo for each requested family
DeviceQueueInfos(aQueues) ==
    [i \in 1..Len(aQueues) |->
        [queueFamilyIndex |-> aQueues[i], queueCount |-> 1, queuePriority |-> 1]]

NegotiateQueues_AlwaysTwo(aPhysicalDev) ==
    LET graphics == find_queue_family(aPhysicalDev, {"GRAPHICS"}, FALSE)
        present == find_queue_family(aPhysicalDev, {}, TRUE)
    IN  IF graphics # <<>> /\ present # <<>>
        THEN [asserted |-> TRUE, graphicsFamilyIndex |-> graphics[1],
              presentFamilyIndex |-> present[1],
              queueFamilyIndices |-> <<graphics[1], present[1]>>]
        ELSE [asserted |-> FALSE, graphicsFamilyIndex |-> 0,
              presentFamilyIndex |-> 0, queueFamilyIndices |-> <<>>]

NegotiateQueues(aPhysicalDev) ==
    LET index == find_queue_family(aPhysicalDev, {"GRAPHICS"}, TRUE)
        graphics == find_queue_family(aPhysicalDev, {"GRAPHICS"}, FALSE)
        present == find_queue_family(aPhysicalDev, {}, TRUE)
    IN  IF index # <<>>
        THEN [asserted |-> TRUE, graphicsFamilyIndex |-> index[1],
              presentFamilyIndex |-> 0, queueFamilyIndices |-> <<index[1]>>]
        ELSE IF graphics # <<>> /\ present # <<>>
        THEN [asserted |-> TRUE, graphicsFamilyIndex |-> graphics[1],
              presentFamilyIndex |-> present[1],
              queueFamilyIndices |-> <<graphics[1], present[1]>>]
        ELSE [asserted |-> FALSE, graphicsFamilyIndex |-> 0,
              presentFamilyIndex |-> 0, queueFamilyIndices |-> <<>>]

CreateLogicalDevice ==
    /\ pc = "device_selected"
    /\ window.physicalDevice # VK_NULL_HANDLE
    /\ \E res \in DriverResults :
        LET q == NegotiateQueues(physProps)
        IN  IF ~q.asserted
            THEN /\ pc' = "aborted"
                 /\ UNCHANGED <<window, cs, failedCalls, thrownBy, deviceInfo>>
            ELSE IF res # "VK_SUCCESS"
            THEN /\ pc' = "threw"
                 /\ thrownBy' = "create_device"
                 /\ failedCalls' = failedCalls \cup {"vkCreateDevice"}
                 /\ window' = [window EXCEPT
                        !.graphicsFamilyIndex = q.graphicsFamilyIndex,
                        !.presentFamilyIndex = q.presentFamilyIndex]
                 /\ deviceInfo' = DeviceQueueInfos(q.queueFamilyIndices)
                 /\ UNCHANGED cs
            ELSE /\ pc' = "cs_query"
                 /\ window' = [window EXCEPT
                        !.graphicsFamilyIndex = q.graphicsFamilyIndex,
                        !.presentFamilyIndex =
                            IF Len(q.queueFamilyIndices) >= 2
                            THEN q.presentFamilyIndex
                            ELSE q.graphicsFamilyIndex,
                        !.graphicsQueue = DeviceQueue(q.graphicsFamilyIndex, 0),
                        !.presentQueue =
                            IF Len(q.queueFamilyIndices) >= 2
                            THEN DeviceQueue(q.presentFamilyIndex, 0)
                            ELSE DeviceQueue(q.graphicsFamilyIndex, 0),
                        !.device = 1]
                 /\ deviceInfo' = DeviceQueueInfos(q.queueFamilyIndices)
                 /\ cs' = [NoCs EXCEPT !.queueFamilyIndices = q.queueFamilyIndices]
                 /\ UNCHANGED <<failedCalls, thrownBy>>
    /\ numDevices' = 0
    /\ devIdx' = 0
    /\ bestScore' = -1
    /\ bestDevice' = VK_NULL_HANDLE
    /\ scored' = <<>>
    /\ physProps' = NoProps
    /\ UNCHANGED <<caller, recreateVars, driverVars, exitCode, chainInfos>>
    /\ UNCHANGED <<mipVars, ownVars, uploadVars, loopVars>>

(***************************************************************************)
(* create_swapchain.  A throw leaves through the caller: recreate_swapchain*)
(* catches it, puts oldSwapchain back into the window and rethrows.        *)
(***************************************************************************)
FormatQueryResults ==
    [res : {"VK_SUCCESS"}, formats : FormatLists]
        \cup [res : DriverResults \ {"VK_SUCCESS"}, formats : {<<>>}]
ModeQueryResults ==
    [res : {"VK_SUCCESS"}, modes : PresentModeSets]
        \cup [res : DriverResults \ {"VK_SUCCESS"}, modes : {{}}]
GarbageFormats == {"GARBAGE"}

AfterCreateSwapchainThrow_DropsHandle(w, from, oldSwapchain) ==
    IF from = "recreate_swapchain" THEN [w EXCEPT !.swapchain = VK_NULL_HANDLE] ELSE w

AfterCreateSwapchainThrow(w, from, oldSwapchain) ==
    IF from = "recreate_swapchain" THEN [w EXCEPT !.swapchain = oldSwapchain] ELSE w

CsQueryFormats ==
    /\ pc = "cs_query"
    /\ \E f \in FormatQueryResults :
        /\ failedCalls' = failedCalls
              \cup (IF f.res # "VK_SUCCESS"
                    THEN {"vkGetPhysicalDeviceSurfaceFormatsKHR"} ELSE {})
        /\ cs' = [cs EXCEPT !.format = IF f.formats = <<>> THEN "NONE"
                                       ELSE PickSurfaceFormat(f.formats).format]
    /\ pc' = "cs_modes"
    /\ UNCHANGED <<caller, window, selectVars, recreateVars, driverVars, thrownBy,
                   exitCode>>
    /\ UNCHANGED <<requestVars, mipVars, ownVars, uploadVars, loopVars>>

CsQueryModes ==
    /\ pc = "cs_modes"
    /\ \E m \in ModeQueryResults,
          readOfEmpty \in IF cs.format = "NONE" THEN {"assert"} \cup GarbageFormats
                          ELSE {cs.format} :
        /\ failedCalls' = failedCalls
              \cup (IF m.res # "VK_SUCCESS"
                    THEN {"vkGetPhysicalDeviceSurfacePresentModesKHR"} ELSE {})
        /\ IF readOfEmpty = "assert"
           THEN /\ pc' = "aborted"
                /\ cs' = cs
           ELSE /\ pc' = "cs_caps"
                /\ cs' = [cs EXCEPT !.format = readOfEmpty,
                                    !.presentMode = PickPresentMode(m.modes)]
    /\ UNCHANGED <<caller, window, selectVars, recreateVars, driverVars, thrownBy,
                   exitCode>>
    /\ UNCHANGED <<requestVars, mipVars, ownVars, uploadVars, loopVars>>

CsCaps ==
    /\ pc = "cs_caps"
    /\ \E res \in DriverResults, caps \in SurfaceCaps, framebuffer \in FramebufferSizes :
        IF res # "VK_SUCCESS"
        THEN /\ pc' = "threw"
             /\ thrownBy' = "create_swapchain"
             /\ failedCalls' = failedCalls
                    \cup {"vkGetPhysicalDeviceSurfaceCapabilitiesKHR"}
             /\ window' = AfterCreateSwapchainThrow(window, caller, old.swapchain)
             /\ cs' = NoCs
        ELSE /\ pc' = "cs_create"
             /\ cs' = [cs EXCEPT !.caps = caps,
                                 !.framebuffer =
                                     IF caps.currentExtent.width = UINT32_MAX
                                     THEN framebuffer ELSE cs.framebuffer,
                                 !.imageCount = PickImageCount(caps),
                                 !.extent = PickExtent(caps, framebuffer)]
             /\ UNCHANGED <<window, thrownBy, failedCalls>>
    /\ UNCHANGED <<caller, selectVars, recreateVars, driverVars, exitCode>>
    /\ UNCHANGED <<requestVars, mipVars, ownVars, uploadVars, loopVars>>

\* the VkSwapchainCreateInfoKHR create_swapchain fills in: the old chain and the
\* sharing of the images (count, format, extent and mode are in cs)
ChainInfo_NoOldSwapchain(c, aOldSwapchain) ==
    [oldSwapchain |-> VK_NULL_HANDLE,
     imageSharingMode |-> SharingMode(c.queueFamilyIndices),
     queueFamilyIndices |-> IF SharingMode(c.queueFamilyIndices) = "CONCURRENT"
                            THEN c.queueFamilyIndices ELSE <<>>]

ChainInfo(c, aOldSwapchain) ==
    [oldSwapchain |-> aOldSwapchain,
     imageSharingMode |-> SharingMode(c.queueFamilyIndices),
     queueFamilyIndices |-> IF SharingMode(c.queueFamilyIndices) = "CONCURRENT"
                            THEN c.queueFamilyIndices ELSE <<>>]

CsCreate ==
    /\ pc = "cs_create"
    /\ \E res \in DriverResults, n \in U32Small(cs.imageCount)..MaxImages :
        IF res # "VK_SUCCESS"
        THEN /\ pc' = "threw"
             /\ thrownBy' = "create_swapchain"
             /\ failedCalls' = failedCalls \cup {"vkCreateSwapchainKHR"}
             /\ window' = AfterCreateSwapchainThrow(window, caller, old.swapchain)
             /\ UNCHANGED <<driverVars, chainInfos>>
        ELSE /\ pc' = "get_images"
             /\ window' = [window EXCEPT !.swapchain = nextChain,
                                         !.swapchainFormat = cs.format,
                                         !.swapchainExtent = cs.extent]
             /\ nextChain' = nextChain + 1
             /\ chainInfos' = Append(chainInfos, ChainInfo(cs, old.swapchain))
             /\ drvImages' = n
             /\ liveChains' =
                    IF caller = "recreate_swapchain"
                    THEN (liveChains \cup {nextChain}) \ {old.swapchain}
                    ELSE liveChains \cup {nextChain}
             /\ UNCHANGED <<liveViews, thrownBy, failedCalls>>
    /\ cs' = NoCs
    /\ UNCHANGED <<caller, selectVars, recreateVars, exitCode, deviceInfo>>
    /\ UNCHANGED <<mipVars, ownVars, uploadVars, loopVars>>

(***************************************************************************)
(* get_swapchain_images and create_swapchain_image_views, and the return   *)
(* of make_vulkan_window or recreate_swapchain that follows them.          *)
(***************************************************************************)
GetSwapchainImages ==
    /\ pc = "get_images"
    /\ \E res \in DriverResults :
        IF res # "VK_SUCCESS"
        THEN /\ failedCalls' = failedCalls \cup {"vkGetSwapchainImagesKHR"}
             /\ UNCHANGED window
        ELSE /\ window' = [window EXCEPT !.swapImages =
                    [i \in 1..drvImages |-> ImageOf(window.swapchain, i)]]
             /\ UNCHANGED failedCalls
    /\ pc' = "create_views"
    /\ UNCHANGED <<caller, selectVars, cs, recreateVars, driverVars, thrownBy,
                   exitCode>>
    /\ UNCHANGED <<requestVars, mipVars, ownVars, uploadVars, loopVars>>

SwapChangesOf(oldFormat, oldExtent, w) ==
    [changedSize |-> oldExtent.width # w.swapchainExtent.width
                        \/ oldExtent.height # w.swapchainExtent.height,
     changedFormat |-> oldFormat # w.swapchainFormat]

CreateSwapchainImageViews ==
    /\ pc = "create_views"
    /\ \E created \in 0..Len(window.swapImages) :
        LET views == [i \in 1..created |-> ViewOf(window.swapImages[i])]
        IN  /\ window' = [window EXCEPT !.swapViews = views]
            /\ liveViews' = liveViews \cup Range(views)
            /\ IF created < Len(window.swapImages)
               THEN /\ pc' = "threw"
                    /\ thrownBy' = "create_swapchain_image_views"
                    /\ failedCalls' = failedCalls \cup {"vkCreateImageView"}
                    /\ UNCHANGED changes
               ELSE /\ pc' = "active"
                    /\ changes' =
                         IF caller = "recreate_swapchain"
                         THEN SwapChangesOf(old.format, old.extent, window')
                         ELSE changes
                    /\ UNCHANGED <<thrownBy, failedCalls>>
    /\ UNCHANGED <<caller, selectVars, cs, old, pre, recreations, nextChain,
                   drvImages, liveChains, exitCode>>
    /\ UNCHANGED <<requestVars, mipVars, ownVars, uploadVars, loopVars>>

(***************************************************************************)
(* recreate_swapchain, up to its call of create_swapchain.                 *)
(***************************************************************************)
DestroyOldObjects(w) == [w EXCEPT !.swapViews = <<>>, !.swapImages = <<>>]

RecreateQueueFamilies_AlwaysBoth(w) ==
    <<w.graphicsFamilyIndex, w.presentFamilyIndex>>

RecreateQueueFamilies(w) ==
    IF w.presentFamilyIndex # w.graphicsFamilyIndex
    THEN <<w.graphicsFamilyIndex, w.presentFamilyIndex>>
    ELSE <<>>

RecreateSwapchain ==
    /\ pc = "active"
    /\ recreations < MaxRecreate
    /\ recreations' = recreations + 1
    /\ pre' = window
    /\ old' = [swapchain |-> window.swapchain, format |-> window.swapchainFormat,
               extent |-> window.swapchainExtent]
    /\ liveViews' = liveViews \ Range(window.swapViews)
    /\ window' = DestroyOldObjects(window)
    /\ cs' = [NoCs EXCEPT !.queueFamilyIndices = RecreateQueueFamilies(window)]
    /\ caller' = "recreate_swapchain"
    /\ changes' = NoChanges
    /\ pc' = "cs_query"
    /\ UNCHANGED <<selectVars, nextChain, drvImages, liveChains, failedCalls,
                   thrownBy, exitCode>>
    /\ UNCHANGED <<requestVars, mipVars, ownVars, uploadVars, loopVars>>

(***************************************************************************)
(* main: the end of the loop, and the catch block.  The window is a local  *)
(* of main (or of make_vulkan_window), destroyed when the block is left.   *)
(***************************************************************************)
ViewsAfterDestructor(w, views) == views \ Range(w.swapViews)
ChainsAfterDestructor(w, chains) ==
    IF w.swapchain # VK_NULL_HANDLE THEN chains \ {w.swapchain} ELSE chains

MainReturn ==
    /\ pc = "active"
    /\ pc' = "terminated"
    /\ exitCode' = 0
    /\ liveViews' = ViewsAfterDestructor(window, liveViews)
    /\ liveChains' = ChainsAfterDestructor(window, liveChains)
    /\ window' = NewWindow
    /\ cs' = NoCs
    /\ old' = NoOld
    /\ pre' = NewWindow
    /\ changes' = NoChanges
    /\ deviceInfo' = <<>>
    /\ chainInfos' = <<>>
    /\ UNCHANGED <<caller, selectVars, recreations, nextChain, drvImages,
                   failedCalls, thrownBy>>
    /\ UNCHANGED <<mipVars, ownVars, uploadVars, loopVars>>

MainCatch ==
    /\ pc = "threw"
    /\ pc' = "terminated"
    /\ exitCode' = 1
    /\ liveViews' = ViewsAfterDestructor(window, liveViews)
    /\ liveChains' = ChainsAfterDestructor(window, liveChains)
    /\ window' = NewWindow
    /\ cs' = NoCs
    /\ old' = NoOld
    /\ pre' = NewWindow
    /\ changes' = NoChanges
    /\ deviceInfo' = <<>>
    /\ chainInfos' = <<>>
    /\ UNCHANGED <<caller, selectVars, recreations, nextChain, drvImages,
                   failedCalls, thrownBy>>
    /\ UNCHANGED <<mipVars, ownVars, uploadVars, loopVars>>

(***************************************************************************)
(* Device selection: make_vulkan_window from select_device to the creation *)
(* of the logical device.                                                  *)
(***************************************************************************)
NextSelect ==
    \/ EnumeratePhysicalDevices
    \/ ScoreNextDevice
    \/ SelectDeviceReturn
    \/ NoSuitableDevice
    \/ CreateLogicalDevice
    \/ MainCatch

SpecSelect == Init /\ [][NextSelect]_vars

(***************************************************************************)
(* The window: make_vulkan_window from the adapter select_device returned  *)
(* (one that score_device did not reject), then the swapchain, its         *)
(* recreations and the end of main.                                        *)
(***************************************************************************)
SelectableAdapters == {a \in Adapters : score_device(a) >= 0}

InitWindow ==
    /\ pc = "device_selected"
    /\ caller = "make_vulkan_window"
    /\ window = [NewWindow EXCEPT !.physicalDevice = 1]
    /\ numDevices = 1
    /\ devIdx = 1
    /\ bestDevice = 1
    /\ physProps \in SelectableAdapters
    /\ bestScore = score_device(physProps)
    /\ scored = <<[score |-> bestScore, usable |-> Usable(physProps),
                   deviceType |-> physProps.deviceType]>>
    /\ cs = NoCs
    /\ old = NoOld
    /\ pre = NewWindow
    /\ changes = NoChanges
    /\ recreations = 0
    /\ nextChain = 1
    /\ drvImages = 0
    /\ liveChains = {}
    /\ liveViews = {}
    /\ failedCalls = {}
    /\ thrownBy = "none"
    /\ exitCode = -1
    /\ deviceInfo = <<>>
    /\ chainInfos = <<>>
    /\ MipIdle
    /\ UploadIdle
    /\ LoopIdle
    /\ OwnIdle

NextWindow ==
    \/ CreateLogicalDevice
    \/ CsQueryFormats
    \/ CsQueryModes
    \/ CsCaps
    \/ CsCreate
    \/ GetSwapchainImages
    \/ CreateSwapchainImageViews
    \/ RecreateSwapchain
    \/ MainReturn
    \/ MainCatch

SpecWindow == InitWindow /\ [][NextWindow]_vars

(***************************************************************************)
(* Properties of device selection (SpecSelect).                            *)
(***************************************************************************)
Selected == window.physicalDevice
UsableOnes == {i \in 1..Len(scored) : scored[i].usable}
ClaimRank(deviceType) ==
    CASE deviceType = "DISCRETE_GPU" -> 2
      [] deviceType = "INTEGRATED_GPU" -> 1
      [] OTHER -> 0
ClaimScore(deviceType) ==
    CASE deviceType = "DISCRETE_GPU" -> 500
      [] deviceType = "INTEGRATED_GPU" -> 100
      [] OTHER -> 0

C1_State ==
    /\ \A i \in 1..Len(scored) : ~scored[i].usable => scored[i].score = -1
    /\ pc = "device_selected" =>
          /\ Selected = VK_NULL_HANDLE \/ Selected \in UsableOnes
          /\ Selected = VK_NULL_HANDLE <=> UsableOnes = {}
    /\ window.device # VK_NULL_HANDLE => window.physicalDevice # VK_NULL_HANDLE
    /\ thrownBy = "make_vulkan_window" =>
          /\ window.device = VK_NULL_HANDLE
          /\ window.swapchain = VK_NULL_HANDLE
          /\ nextChain = 1

C1_Step ==
    (pc = "device_selected" /\ Selected = VK_NULL_HANDLE)
        => (pc' = "threw" /\ thrownBy' = "make_vulkan_window")

\* C1: select_device never returns an adapter that score_device rejects: an
\* adapter with too low an API version, without VK_KHR_swapchain, without a
\* presenting family or without a graphics family is scored -1; the result is a
\* non-rejected adapter or the null handle, the null handle exactly when every
\* adapter is rejected, and then make_vulkan_window throws before a logical
\* device or a swapchain exists.
C1_Theorem == [](C1_State) /\ [][C1_Step]_vars

C1_Witness ==
    /\ pc = "device_selected"
    /\ Len(scored) = 2
    /\ ~scored[1].usable
    /\ scored[2].usable
    /\ Selected = 2

\* C2: when some adapter is not rejected, select_device returns the one with
\* the highest score (discrete 500 > integrated 100 > other 0), the first in
\* enumeration order among those sharing it; a valid discrete adapter beats a
\* valid integrated one in either order.
C2_Theorem ==
    (pc = "device_selected" /\ UsableOnes # {}) =>
        /\ Selected \in UsableOnes
        /\ \A j \in UsableOnes :
              /\ scored[j].score = ClaimScore(scored[j].deviceType)
              /\ \/ ClaimRank(scored[j].deviceType)
                        < ClaimRank(scored[Selected].deviceType)
                 \/ /\ scored[j].deviceType = scored[Selected].deviceType
                    /\ Selected <= j
        /\ (\E j \in UsableOnes : scored[j].deviceType = "DISCRETE_GPU")
              => scored[Selected].deviceType = "DISCRETE_GPU"

C2_Witness ==
    /\ pc = "device_selected"
    /\ Len(scored) = 2
    /\ scored[1].usable /\ scored[1].deviceType = "INTEGRATED_GPU"
    /\ scored[2].usable /\ scored[2].deviceType = "DISCRETE_GPU"
    /\ Selected = 2

(***************************************************************************)
(* Properties of the swapchain (SpecWindow).                               *)
(***************************************************************************)
AfterRecreate == caller = "recreate_swapchain" /\ pc \in {"active", "threw"}
Observable == pc = "active" \/ AfterRecreate

ViewsOfImages(images) == [i \in 1..Len(images) |-> ViewOf(images[i])]

InPreCallState ==
    /\ window = pre
    /\ window.swapchain \in liveChains
    /\ Range(window.swapViews) \subseteq liveViews

InNewState ==
    /\ window.swapchain # pre.swapchain
    /\ window.swapchain \in liveChains
    /\ window.swapImages = [i \in 1..drvImages |-> ImageOf(window.swapchain, i)]
    /\ window.swapViews = ViewsOfImages(window.swapImages)
    /\ Range(window.swapViews) \subseteq liveViews

\* C3: after recreate_swapchain returns or throws, the window is entirely in
\* its pre-call state (old chain, its images and views) or entirely in the new
\* state (new chain, its images, one view per image).
C3_Claim == AfterRecreate => (InPreCallState \/ InNewState)

\* C4: when create_swapchain throws inside recreate_swapchain, the window
\* holds the swapchain handle it held before the call, that chain has not been
\* destroyed, and swapchainFormat and swapchainExtent are unchanged.
C4_Theorem ==
    (pc = "threw" /\ thrownBy = "create_swapchain" /\ caller = "recreate_swapchain") =>
        /\ window.swapchain = pre.swapchain
        /\ window.swapchain \in liveChains
        /\ window.swapchainFormat = pre.swapchainFormat
        /\ window.swapchainExtent = pre.swapchainExtent

C4_Witness ==
    /\ pc = "threw"
    /\ thrownBy = "create_swapchain"
    /\ caller = "recreate_swapchain"
    /\ window.swapchain = 1
    /\ "vkCreateSwapchainKHR" \in failedCalls

\* C5: in every state the caller can observe (after make_vulkan_window, after
\* a recreate_swapchain that returned or threw), swapImages and swapViews have
\* the same length and swapViews[i] is the view of swapImages[i].
C5_Claim ==
    Observable =>
        /\ Len(window.swapViews) = Len(window.swapImages)
        /\ \A i \in 1..Len(window.swapViews) :
              window.swapViews[i] = ViewOf(window.swapImages[i])

\* C10: every status other than VK_SUCCESS that a driver call returns during
\* device selection, swapchain creation and recreation becomes a thrown error
\* that reaches the catch block of main; none is swallowed.
C10_Claim ==
    failedCalls # {} => (pc = "threw" \/ (pc = "terminated" /\ exitCode = 1))

Returned == caller = "recreate_swapchain" /\ pc = "active"
SizeDiffers ==
    \/ window.swapchainExtent.width # pre.swapchainExtent.width
    \/ window.swapchainExtent.height # pre.swapchainExtent.height
FormatDiffers == window.swapchainFormat # pre.swapchainFormat

\* C11: recreate_swapchain returns changedSize = TRUE exactly when the new
\* extent differs from the pre-call extent in width or height and
\* changedFormat = TRUE exactly when the new format differs from the pre-call
\* format; when neither changed the window still holds a complete chain (a new
\* live handle, the images of the chain and one view per image), after any
\* number of recreations.
C11_Claim ==
    Returned =>
        /\ changes.changedSize <=> SizeDiffers
        /\ changes.changedFormat <=> FormatDiffers
        /\ (~changes.changedSize /\ ~changes.changedFormat) => InNewState

GraphicsFamilies(a) ==
    {i - 1 : i \in {j \in 1..Len(a.families) : "GRAPHICS" \in a.families[j].queueFlags}}
PresentFamilies(a) ==
    {i - 1 : i \in {j \in 1..Len(a.families) : a.families[j].present}}
Lowest(S) == CHOOSE i \in S : \A j \in S : i <= j
RequestedFamilies(infos) == [i \in 1..Len(infos) |-> infos[i].queueFamilyIndex]
NoDuplicate(q) == \A i, j \in 1..Len(q) : q[i] = q[j] => i = j

C12_Step ==
    (pc = "device_selected" /\ pc' \in {"cs_query", "threw"}
        /\ window.physicalDevice # VK_NULL_HANDLE) =>
        LET both == GraphicsFamilies(physProps) \cap PresentFamilies(physProps)
            requested == RequestedFamilies(deviceInfo')
            w == window'
        IN  /\ both # {} =>
                  /\ requested = <<Lowest(both)>>
                  /\ pc' = "cs_query" =>
                        /\ w.graphicsFamilyIndex = Lowest(both)
                        /\ w.presentFamilyIndex = w.graphicsFamilyIndex
                        /\ w.graphicsQueue # NullQueue
                        /\ w.presentQueue = w.graphicsQueue
            /\ both = {} =>
                  /\ Len(requested) = 2
                  /\ requested[1] \in GraphicsFamilies(physProps)
                  /\ requested[2] \in PresentFamilies(physProps)
                  /\ requested[1] # requested[2]
                  /\ pc' = "cs_query" =>
                        /\ w.graphicsFamilyIndex = requested[1]
                        /\ w.presentFamilyIndex = requested[2]
                        /\ w.graphicsQueue = DeviceQueue(requested[1], 0)
                        /\ w.presentQueue = DeviceQueue(requested[2], 0)
            /\ NoDuplicate(requested)
            /\ \A i \in 1..Len(deviceInfo') : deviceInfo'[i].queueCount = 1

FallbackTaken(a) == find_queue_family(a, {"GRAPHICS"}, TRUE) = <<>>

\* C22: for an adapter select_device can return (score >= 0) and the same
\* surface, the negotiation never fails its assertion graphics && present:
\* the fallback branch finds a graphics family and a presenting family, and
\* graphicsFamilyIndex and presentFamilyIndex are families of the adapter
\* with these capabilities.
C22_Step ==
    (pc = "device_selected" /\ window.physicalDevice # VK_NULL_HANDLE
        /\ score_device(physProps) >= 0) =>
        /\ pc' # "aborted"
        /\ NegotiateQueues(physProps).asserted
        /\ (FallbackTaken(physProps) /\ pc' \in {"cs_query", "threw"}) =>
              /\ find_queue_family(physProps, {"GRAPHICS"}, FALSE) # <<>>
              /\ find_queue_family(physProps, {}, TRUE) # <<>>
              /\ window'.graphicsFamilyIndex \in GraphicsFamilies(physProps)
              /\ window'.presentFamilyIndex \in PresentFamilies(physProps)

AboutToCreate == pc = "cs_create"

U32LessEq(a, b) == ~U32Less(b, a)

Within(v, lo, hi) == U32LessEq(lo, v) /\ U32LessEq(v, hi)

\* x is v brought into [lo, hi]: v itself when it lies inside, else the
\* nearer end
ClampedTo(x, v, lo, hi) ==
    /\ Within(v, lo, hi) => x = v
    /\ U32Less(v, lo) => x = lo
    /\ U32Less(hi, v) => x = hi

\* C15: create_swapchain uses currentExtent unchanged when its width is not
\* 0xFFFFFFFF; otherwise it uses the framebuffer size, the width clamped to
\* [minImageExtent.width, maxImageExtent.width] and the height to
\* [minImageExtent.height, maxImageExtent.height], so that the extent lies
\* within the bounds the surface declares.
C15_Theorem ==
    AboutToCreate =>
        IF cs.caps.currentExtent.width # UINT32_MAX
        THEN cs.extent = cs.caps.currentExtent
        ELSE /\ ClampedTo(cs.extent.width, U32(cs.framebuffer[1]),
                          cs.caps.minImageExtent.width, cs.caps.maxImageExtent.width)
             /\ ClampedTo(cs.extent.height, U32(cs.framebuffer[2]),
                          cs.caps.minImageExtent.height, cs.caps.maxImageExtent.height)
             /\ Within(cs.extent.width, cs.caps.minImageExtent.width,
                       cs.caps.maxImageExtent.width)
             /\ Within(cs.extent.height, cs.caps.minImageExtent.height,
                       cs.caps.maxImageExtent.height)

\* the fallback with a framebuffer too wide and of height 0: both ends clamp
C15_Witness ==
    /\ AboutToCreate
    /\ cs.caps.currentExtent.width = UINT32_MAX
    /\ U32Less(cs.caps.maxImageExtent.width, U32(cs.framebuffer[1]))
    /\ U32Less(U32(cs.framebuffer[2]), cs.caps.minImageExtent.height)
    /\ cs.extent.width = cs.caps.maxImageExtent.width
    /\ cs.extent.height = cs.caps.minImageExtent.height

OneFamily == window.graphicsFamilyIndex = window.presentFamilyIndex

InRecreate ==
    /\ caller = "recreate_swapchain"
    /\ pc \in {"cs_query", "cs_modes", "cs_caps", "cs_create", "get_images",
               "create_views"}

LastChainInfo(infos) == infos[Len(infos)]

\* C20: within recreate_swapchain the old chain is destroyed only in the
\* step in which the creation of the new chain has succeeded, with every
\* old image view destroyed before; the new chain is created with the old
\* handle as oldSwapchain; and when create_swapchain fails the old chain is
\* not destroyed.
C20_Step ==
    InRecreate =>
        /\ liveChains \ liveChains' # {} =>
              /\ liveChains \ liveChains' = {pre.swapchain}
              /\ Range(pre.swapViews) \cap liveViews = {}
              /\ Len(chainInfos') = Len(chainInfos) + 1
              /\ window'.swapchain \in liveChains' \ liveChains
        /\ Len(chainInfos') > Len(chainInfos) =>
              /\ LastChainInfo(chainInfos').oldSwapchain = pre.swapchain
              /\ pre.swapchain \in liveChains
              /\ pre.swapchain \notin liveChains'
        /\ (pc' = "threw" /\ thrownBy' = "create_swapchain") =>
              /\ pre.swapchain \in liveChains'
              /\ window'.swapchain = pre.swapchain
              /\ chainInfos' = chainInfos

C20_Theorem == [][C20_Step]_vars

\* the recreation is through: the old views and the old chain are gone and
\* the new chain was asked for with the old handle
C20_Witness ==
    /\ caller = "recreate_swapchain"
    /\ pc = "get_images"
    /\ Len(chainInfos) = 2
    /\ pre.swapViews # <<>>
    /\ Range(pre.swapViews) \cap liveViews = {}
    /\ pre.swapchain # VK_NULL_HANDLE
    /\ chainInfos[2].oldSwapchain = pre.swapchain
    /\ liveChains = {window.swapchain}
    /\ window.swapchain # pre.swapchain

(***************************************************************************)
(* countl_zero_ and compute_mip_level_count, on 32-bit words.              *)
(***************************************************************************)
WordBits == 32

RECURSIVE BitOr(_, _)
BitOr(x, y) ==
    IF x = 0 THEN y
    ELSE IF y = 0 THEN x
    ELSE (IF x % 2 = 1 \/ y % 2 = 1 THEN 1 ELSE 0) + 2 * BitOr(x \div 2, y \div 2)

U32Or(a, b) == <<BitOr(a[1], b[1]), BitOr(a[2], b[2])>>

\* !(aX & mask) for the mask of the n highest bits, n <= 16
HighBitsClear(aX, n) == aX[1] \div 2^(16 - n) = 0

\* aX <<= k, k <= 16
U32Shl(aX, k) ==
    <<(aX[1] % 2^(16 - k)) * 2^k + aX[2] \div 2^(16 - k),
      (aX[2] % 2^(16 - k)) * 2^k>>

ClzStep_NoShift(st, n) ==
    IF HighBitsClear(st.x, n) THEN [res |-> st.res + n, x |-> st.x] ELSE st

ClzStep(st, n) ==
    IF HighBitsClear(st.x, n)
    THEN [res |-> st.res + n, x |-> U32Shl(st.x, n)]
    ELSE st

countl_zero_(aX) ==
    IF aX = <<0, 0>> THEN 32
    ELSE LET s16 == ClzStep([res |-> 0, x |-> aX], 16)
             s8 == ClzStep(s16, 8)
             s4 == ClzStep(s8, 4)
             s2 == ClzStep(s4, 2)
         IN  IF HighBitsClear(s2.x, 1) THEN s2.res + 1 ELSE s2.res

compute_mip_level_count_WidthOnly(aWidth, aHeight) ==
    WordBits - countl_zero_(aWidth)

compute_mip_level_count(aWidth, aHeight) ==
    LET bits == U32Or(aWidth, aHeight)
        leadingZeros == countl_zero_(bits)
    IN  WordBits - leadingZeros

(***************************************************************************)
(* Two calls of compute_mip_level_count on arguments drawn from the small  *)
(* sizes and from sizes around the powers of two of a 32-bit word.         *)
(***************************************************************************)
MaxDim == 4

MipDims ==
    {U32(n) : n \in 0..MaxDim}
        \cup {U32(255), U32(256), U32(300), U32(511), U32(512), <<0, 65535>>,
              <<1, 0>>, <<32767, 65535>>, <<32768, 0>>, UINT32_MAX}

InitMip ==
    /\ WindowStart
    /\ UploadIdle
    /\ LoopIdle
    /\ OwnIdle
    /\ mipPc = "start"
    /\ mipA \in [width : MipDims, height : MipDims, levels : {0}]
    /\ mipB \in [width : MipDims, height : MipDims, levels : {0}]

ComputeMipLevelCountA ==
    /\ mipPc = "start"
    /\ mipA' = [mipA EXCEPT !.levels = compute_mip_level_count(mipA.width, mipA.height)]
    /\ mipPc' = "one"
    /\ UNCHANGED <<mipB, windowVars, uploadVars, loopVars, ownVars>>

ComputeMipLevelCountB ==
    /\ mipPc = "one"
    /\ mipB' = [mipB EXCEPT !.levels = compute_mip_level_count(mipB.width, mipB.height)]
    /\ mipPc' = "done"
    /\ UNCHANGED <<mipA, windowVars, uploadVars, loopVars, ownVars>>

NextMip == ComputeMipLevelCountA \/ ComputeMipLevelCountB

SpecMip == InitMip /\ [][NextMip]_vars

(***************************************************************************)
(* Properties of compute_mip_level_count (SpecMip).                        *)
(***************************************************************************)
Pow2(k) == IF k < 16 THEN <<0, 2^k>> ELSE <<2^(k - 16), 0>>
FloorLog2(x) ==
    CHOOSE k \in 0..31 :
        /\ ~U32Less(x, Pow2(k))
        /\ k = 31 \/ U32Less(x, Pow2(k + 1))
LargerSide(m) == U32Max(m.width, m.height)
Called(m, w, h) == m.width = U32(w) /\ m.height = U32(h)

\* C8: compute_mip_level_count(w, h) = 1 + floor(log2(max(w, h))) for all
\* 32-bit w, h with max(w, h) >= 1, that is 32 minus the number of leading
\* zeros of w | h; it is 1 for (1,1), 9 for (256,256), 9 for (300,1) and 10
\* for (512,256).
C8_Theorem ==
    mipPc = "done" =>
        /\ LargerSide(mipA) # <<0, 0>> =>
              mipA.levels = 1 + FloorLog2(LargerSide(mipA))
        /\ Called(mipA, 1, 1) => mipA.levels = 1
        /\ Called(mipA, 256, 256) => mipA.levels = 9
        /\ Called(mipA, 300, 1) => mipA.levels = 9
        /\ Called(mipA, 512, 256) => mipA.levels = 10

C8_Witness == mipPc = "done" /\ Called(mipA, 512, 256) /\ mipA.levels = 10

\* C9 as claimed: the result is always >= 1 and strictly increasing in
\* max(w, h).
C9_Claim ==
    mipPc = "done" =>
        /\ mipA.levels >= 1
        /\ U32Less(LargerSide(mipA), LargerSide(mipB)) => mipA.levels < mipB.levels

\* C9 as amended: the result is >= 1 whenever max(w, h) >= 1 (it is 0 for
\* w = h = 0) and it never decreases when max(w, h) grows.
C9_Theorem ==
    mipPc = "done" =>
        /\ LargerSide(mipA) # <<0, 0>> => mipA.levels >= 1
        /\ LargerSide(mipA) = <<0, 0>> => mipA.levels = 0
        /\ U32Less(LargerSide(mipA), LargerSide(mipB)) => mipA.levels <= mipB.levels

C9_Witness ==
    /\ mipPc = "done"
    /\ Called(mipA, 2, 1)
    /\ Called(mipB, 1, 3)
    /\ mipA.levels = 2
    /\ mipB.levels = 2

(***************************************************************************)
(* The commands load_image_texture2d and create_mesh record.               *)
(***************************************************************************)
ImageBarrier(aSrcAccess, aDstAccess, aOldLayout, aNewLayout, aBaseLevel, aLevelCount) ==
    [op |-> "image_barrier", srcAccess |-> aSrcAccess, dstAccess |-> aDstAccess,
     oldLayout |-> aOldLayout, newLayout |-> aNewLayout,
     baseMipLevel |-> aBaseLevel, levelCount |-> aLevelCount]

CopyBufferToImage(aLayout, aLevel, aExtent) ==
    [op |-> "copy_buffer_to_image", dstLayout |-> aLayout, mipLevel |-> aLevel,
     imageExtent |-> aExtent]

BlitImage(aSrcLevel, aSrcExtent, aDstLevel, aDstExtent) ==
    [op |-> "blit_image",
     srcLayout |-> "TRANSFER_SRC_OPTIMAL", srcLevel |-> aSrcLevel,
     srcExtent |-> aSrcExtent,
     dstLayout |-> "TRANSFER_DST_OPTIMAL", dstLevel |-> aDstLevel,
     dstExtent |-> aDstExtent]

HalveExtent_NoMinimum(n) == n \div 2

HalveExtent(n) == IF n \div 2 = 0 THEN 1 ELSE n \div 2

RECURSIVE MipLoop(_, _, _, _)
MipLoop(level, mipLevels, width, height) ==
    IF ~(level < mipLevels) THEN <<>>
    ELSE <<BlitImage(level - 1, <<width, height>>,
                     level, <<HalveExtent(width), HalveExtent(height)>>),
           ImageBarrier("TRANSFER_WRITE", "TRANSFER_READ",
                        "TRANSFER_DST_OPTIMAL", "TRANSFER_SRC_OPTIMAL", level, 1)>>
             \o MipLoop(level + 1, mipLevels, HalveExtent(width), HalveExtent(height))

FinalBarrier_BaseLevelOnly(mipLevels) ==
    ImageBarrier("TRANSFER_READ", "SHADER_READ",
                 "TRANSFER_SRC_OPTIMAL", "SHADER_READ_ONLY_OPTIMAL", 0, 1)

FinalBarrier(mipLevels) ==
    ImageBarrier("TRANSFER_READ", "SHADER_READ",
                 "TRANSFER_SRC_OPTIMAL", "SHADER_READ_ONLY_OPTIMAL", 0, mipLevels)

TextureCommands_NoBaseTransition(baseWidth, baseHeight) ==
    LET mipLevels == compute_mip_level_count(U32(baseWidth), U32(baseHeight))
    IN  <<ImageBarrier("NONE", "TRANSFER_WRITE",
                       "UNDEFINED", "TRANSFER_DST_OPTIMAL", 0, mipLevels),
          CopyBufferToImage("TRANSFER_DST_OPTIMAL", 0, <<baseWidth, baseHeight>>)>>
            \o MipLoop(1, mipLevels, baseWidth, baseHeight)
            \o <<FinalBarrier(mipLevels)>>

TextureCommands(baseWidth, baseHeight) ==
    LET mipLevels == compute_mip_level_count(U32(baseWidth), U32(baseHeight))
    IN  <<ImageBarrier("NONE", "TRANSFER_WRITE",
                       "UNDEFINED", "TRANSFER_DST_OPTIMAL", 0, mipLevels),
          CopyBufferToImage("TRANSFER_DST_OPTIMAL", 0, <<baseWidth, baseHeight>>),
          ImageBarrier("TRANSFER_WRITE", "TRANSFER_READ",
                       "TRANSFER_DST_OPTIMAL", "TRANSFER_SRC_OPTIMAL", 0, 1)>>
            \o MipLoop(1, mipLevels, baseWidth, baseHeight)
            \o <<FinalBarrier(mipLevels)>>

CopyBuffer(aDst) == [op |-> "copy_buffer", dst |-> aDst]

BufferBarrier(aBuffer, aSrcAccess, aDstAccess, aSrcStage, aDstStage) ==
    [op |-> "buffer_barrier", buffer |-> aBuffer,
     srcAccess |-> aSrcAccess, dstAccess |-> aDstAccess,
     srcStage |-> aSrcStage, dstStage |-> aDstStage]

MeshUpload(aBuffer) ==
    <<CopyBuffer(aBuffer),
      BufferBarrier(aBuffer, "TRANSFER_WRITE", "VERTEX_ATTRIBUTE_READ",
                    "TRANSFER", "VERTEX_INPUT")>>

MeshCommands ==
    MeshUpload("vertexPosGPU") \o MeshUpload("vertexTexGPU")
        \o MeshUpload("vertexNormGPU") \o MeshUpload("indexGPU")
        \o MeshUpload("tangentGPU")

(***************************************************************************)
(* The device executing the submitted command buffer, one command a step.  *)
(***************************************************************************)
LevelsOf(c) == c.baseMipLevel..(c.baseMipLevel + c.levelCount - 1)
InImage(level) == (level + 1) \in DOMAIN layouts
LayoutOf(level) == IF InImage(level) THEN layouts[level + 1] ELSE "NO_SUCH_LEVEL"

CommandFault(c) ==
    CASE c.op = "image_barrier" ->
            \E l \in LevelsOf(c) : c.oldLayout \notin {"UNDEFINED", LayoutOf(l)}
      [] c.op = "copy_buffer_to_image" ->
            ~stagingLive \/ LayoutOf(c.mipLevel) # c.dstLayout
      [] c.op = "blit_image" ->
            \/ c.srcLevel \notin written
            \/ LayoutOf(c.srcLevel) # c.srcLayout
            \/ LayoutOf(c.dstLevel) # c.dstLayout
      [] c.op = "copy_buffer" -> ~stagingLive
      [] OTHER -> FALSE

LayoutsAfter(c) ==
    IF c.op # "image_barrier" THEN layouts
    ELSE [i \in DOMAIN layouts |->
            IF (i - 1) \in LevelsOf(c) /\ c.oldLayout \in {"UNDEFINED", layouts[i]}
            THEN c.newLayout
            ELSE layouts[i]]

WrittenAfter(c) ==
    CASE c.op = "copy_buffer_to_image" -> written \cup {c.mipLevel}
      [] c.op = "blit_image" -> written \cup {c.dstLevel}
      [] c.op = "copy_buffer" -> written \cup {c.dst}
      [] OTHER -> written

LevelExtentAfter(c) ==
    CASE c.op = "copy_buffer_to_image" /\ InImage(c.mipLevel) ->
            [levelExtent EXCEPT ![c.mipLevel + 1] = c.imageExtent]
      [] c.op = "blit_image" /\ InImage(c.dstLevel) ->
            [levelExtent EXCEPT ![c.dstLevel + 1] = c.dstExtent]
      [] OTHER -> levelExtent

GpuExecute ==
    /\ upPc = "submitted"
    /\ gpuPos < Len(cmds)
    /\ LET c == cmds[gpuPos + 1]
       IN  /\ gpuFaults' = IF CommandFault(c) THEN gpuFaults \cup {gpuPos + 1}
                           ELSE gpuFaults
           /\ layouts' = LayoutsAfter(c)
           /\ written' = WrittenAfter(c)
           /\ levelExtent' = LevelExtentAfter(c)
           /\ madeVisible' = IF c.op = "buffer_barrier"
                             THEN madeVisible \cup {<<c.buffer, c.dstAccess, c.dstStage>>}
                             ELSE madeVisible
    /\ gpuPos' = gpuPos + 1
    /\ fence' = IF gpuPos + 1 = Len(cmds) THEN "signaled" ELSE fence
    /\ UNCHANGED <<upPc, upDims, cmds, fenceObserved, stagingLive, imageLevels,
                   upFn, upCalls, upDone, windowVars, mipVars, ownVars, loopVars>>

(***************************************************************************)
(* load_image_texture2d and create_mesh on the host.                       *)
(***************************************************************************)
TexSizes ==
    {<<w, h>> : w \in 1..MaxDim, h \in 1..MaxDim}
        \cup {<<256, 256>>, <<300, 1>>, <<512, 256>>}

\* a call starts from a device that has executed nothing for it
UploadCalled(fn, size) ==
    /\ upPc \in {"start", "returned"}
    /\ fn \notin upDone
    /\ upFn' = fn
    /\ upDims' = size
    /\ upCalls' = <<>>
    /\ gpuPos' = 0
    /\ fenceObserved' = FALSE
    /\ written' = {}
    /\ madeVisible' = {}
    /\ gpuFaults' = {}
    /\ UNCHANGED <<upDone, windowVars, mipVars, ownVars, loopVars>>

\* the staging buffers are locals held by owning wrappers: leaving the
\* function, by return or by throw, releases them
StagingAfterScope == FALSE

\* a step before vkQueueSubmit failed: the function throws with nothing recorded
UploadThrowsEarly ==
    /\ upPc' = "threw"
    /\ cmds' = <<>>
    /\ fence' = "none"
    /\ stagingLive' = StagingAfterScope
    /\ imageLevels' = 0
    /\ layouts' = <<>>
    /\ levelExtent' = <<>>

LoadImageTexture2dRecord ==
    \E size \in TexSizes, res \in DriverResults :
        /\ UploadCalled("load_image_texture2d", size)
        /\ IF res # "VK_SUCCESS" THEN UploadThrowsEarly
           ELSE LET mipLevels == compute_mip_level_count(U32(size[1]), U32(size[2]))
                IN  /\ upPc' = "recorded"
                    /\ stagingLive' = TRUE
                    /\ imageLevels' = mipLevels
                    /\ layouts' = [i \in 1..mipLevels |-> "UNDEFINED"]
                    /\ levelExtent' = [i \in 1..mipLevels |-> <<0, 0>>]
                    /\ cmds' = TextureCommands(size[1], size[2])
                    /\ fence' = "unsignaled"

CreateMeshRecord ==
    \E res \in DriverResults :
        /\ UploadCalled("create_mesh", <<0, 0>>)
        /\ IF res # "VK_SUCCESS" THEN UploadThrowsEarly
           ELSE /\ upPc' = "recorded"
                /\ stagingLive' = TRUE
                /\ imageLevels' = 0
                /\ layouts' = <<>>
                /\ levelExtent' = <<>>
                /\ cmds' = MeshCommands
                /\ fence' = "unsignaled"

QueueSubmit(fn) ==
    /\ upPc = "recorded"
    /\ upFn = fn
    /\ \E res \in DriverResults :
        /\ upCalls' = Append(upCalls, <<"vkQueueSubmit", res>>)
        /\ IF res # "VK_SUCCESS"
           THEN upPc' = "threw" /\ stagingLive' = StagingAfterScope
           ELSE upPc' = "submitted" /\ stagingLive' = stagingLive
    /\ UNCHANGED <<upDims, cmds, gpuPos, fence, fenceObserved, imageLevels, layouts,
                   written, levelExtent, upFn, madeVisible, gpuFaults, upDone,
                   windowVars, mipVars, ownVars, loopVars>>

WaitFailed_Ignored(res) == FALSE

WaitFailed(res) == "VK_SUCCESS" # res

\* vkWaitForFences without a timeout answers VK_SUCCESS only for a signaled fence
WaitForFencesAndReturn(fn) ==
    /\ upPc = "submitted"
    /\ upFn = fn
    /\ \E res \in DriverResults :
        /\ res = "VK_SUCCESS" => fence = "signaled"
        /\ upCalls' = Append(upCalls, <<"vkWaitForFences", res>>)
        /\ fenceObserved' = (res = "VK_SUCCESS")
        /\ IF WaitFailed(res)
           THEN upPc' = "threw" /\ upDone' = upDone
           ELSE upPc' = "returned" /\ upDone' = upDone \cup {fn}
    /\ stagingLive' = StagingAfterScope
    /\ UNCHANGED <<upDims, cmds, gpuPos, fence, imageLevels, layouts, written,
                   levelExtent, upFn, madeVisible, gpuFaults, windowVars, mipVars,
                   ownVars, loopVars>>

LoadImageTexture2dSubmit == QueueSubmit("load_image_texture2d")
LoadImageTexture2dWait == WaitForFencesAndReturn("load_image_texture2d")
CreateMeshSubmit == QueueSubmit("create_mesh")
CreateMeshWait == WaitForFencesAndReturn("create_mesh")

InitUpload ==
    /\ WindowStart
    /\ MipIdle
    /\ LoopIdle
    /\ OwnIdle
    /\ upPc = "start"
    /\ upDims = <<0, 0>>
    /\ cmds = <<>>
    /\ gpuPos = 0
    /\ fence = "none"
    /\ fenceObserved = FALSE
    /\ stagingLive = FALSE
    /\ imageLevels = 0
    /\ layouts = <<>>
    /\ written = {}
    /\ levelExtent = <<>>
    /\ upFn = "none"
    /\ upCalls = <<>>
    /\ madeVisible = {}
    /\ gpuFaults = {}
    /\ upDone = {}

NextUpload ==
    \/ LoadImageTexture2dRecord
    \/ LoadImageTexture2dSubmit
    \/ LoadImageTexture2dWait
    \/ CreateMeshRecord
    \/ CreateMeshSubmit
    \/ CreateMeshWait
    \/ GpuExecute

SpecUpload == InitUpload /\ [][NextUpload]_vars

(***************************************************************************)
(* Properties of the uploads (SpecUpload).                                 *)
(***************************************************************************)
CallSucceeded(i, name) == upCalls[i] = <<name, "VK_SUCCESS">>

\* C6: create_mesh and load_image_texture2d return only after a successful
\* vkWaitForFences that follows their vkQueueSubmit: at the return the
\* submit succeeded, a later wait answered VK_SUCCESS, and the device has
\* signaled the fence having executed every recorded command.
C6_Theorem ==
    upPc = "returned" =>
        /\ \E i, j \in DOMAIN upCalls :
              /\ i < j
              /\ CallSucceeded(i, "vkQueueSubmit")
              /\ CallSucceeded(j, "vkWaitForFences")
        /\ fenceObserved
        /\ fence = "signaled"
        /\ gpuPos = Len(cmds)

C6_Witness ==
    /\ upPc = "returned"
    /\ upDone = {"create_mesh", "load_image_texture2d"}
    /\ fenceObserved
    /\ gpuPos = Len(cmds)

\* C7: once the commands recorded by load_image_texture2d have executed,
\* every mip level 0..levels-1 of the image is in the shader-read-only
\* layout, and no command found a level in another layout than it named.
C7_Theorem ==
    (upFn = "load_image_texture2d" /\ upPc \in {"submitted", "returned"}
        /\ gpuPos = Len(cmds)) =>
        /\ imageLevels = compute_mip_level_count(U32(upDims[1]), U32(upDims[2]))
        /\ Len(layouts) = imageLevels
        /\ \A level \in 0..(imageLevels - 1) :
              LayoutOf(level) = "SHADER_READ_ONLY_OPTIMAL"
        /\ gpuFaults = {}

C7_Witness ==
    /\ upFn = "load_image_texture2d"
    /\ upPc = "returned"
    /\ upDims = <<512, 256>>
    /\ imageLevels = 10
    /\ \A level \in 0..9 : LayoutOf(level) = "SHADER_READ_ONLY_OPTIMAL"
    /\ levelExtent[10] = <<1, 1>>

\* the command the device executes next, while load_image_texture2d's
\* command buffer is running
TextureRunning ==
    upFn = "load_image_texture2d" /\ upPc = "submitted" /\ gpuPos < Len(cmds)

NextCommand == cmds[gpuPos + 1]

BlitsRecorded == {i \in DOMAIN cmds : cmds[i].op = "blit_image"}

\* C18: for every level L in 1..levels-1 there is one blit into L; when it
\* executes, level L-1 is in the transfer-source layout and has been written
\* (by the buffer copy or by the previous blit) and level L is in the
\* transfer-destination layout; and every image barrier finds all the
\* levels it names in the old layout it declares.
C18_Theorem ==
    /\ (upFn = "load_image_texture2d" /\ upPc \in {"recorded", "submitted"}) =>
          /\ {cmds[i].dstLevel : i \in BlitsRecorded} = 1..(imageLevels - 1)
          /\ Cardinality(BlitsRecorded) = imageLevels - 1
    /\ TextureRunning =>
          /\ NextCommand.op = "blit_image" =>
                /\ NextCommand.srcLevel = NextCommand.dstLevel - 1
                /\ NextCommand.srcLevel \in written
                /\ NextCommand.dstLevel \notin written
                /\ LayoutOf(NextCommand.srcLevel) = "TRANSFER_SRC_OPTIMAL"
                /\ LayoutOf(NextCommand.dstLevel) = "TRANSFER_DST_OPTIMAL"
          /\ NextCommand.op = "image_barrier" =>
                \A level \in LevelsOf(NextCommand) :
                    LayoutOf(level) = NextCommand.oldLayout

\* the blit into level 2 is next: its source was written by the blit into 1
C18_Witness ==
    /\ TextureRunning
    /\ NextCommand.op = "blit_image"
    /\ NextCommand.dstLevel = 2
    /\ written = {0, 1}
    /\ LayoutOf(1) = "TRANSFER_SRC_OPTIMAL"
    /\ LayoutOf(2) = "TRANSFER_DST_OPTIMAL"

\* C19 as the spec states it: once the copy commands were submitted, the
\* staging buffers are destroyed only after the host has seen the upload
\* fence signaled, also when the fence wait reports a failure.
C19_Claim ==
    ((\E i \in DOMAIN upCalls : CallSucceeded(i, "vkQueueSubmit")) /\ ~stagingLive)
        => fenceObserved

\* how the render loop binds the buffers create_mesh returns: positions,
\* texCoords, normals and tangents as vertex buffers, indices as index buffer
BoundAs(aBuffer) ==
    IF aBuffer = "indexGPU" THEN "index_buffer" ELSE "vertex_buffer"

ConsumerAccess(aBuffer) ==
    IF BoundAs(aBuffer) = "index_buffer" THEN "INDEX_READ"
    ELSE "VERTEX_ATTRIBUTE_READ"

MeshRecorded == upFn = "create_mesh" /\ upPc \in {"recorded", "submitted", "returned"}

CopiesRecorded == {i \in DOMAIN cmds : cmds[i].op = "copy_buffer"}

\* C21 as the spec states it: each of the five copies of create_mesh is
\* followed by a buffer barrier on its destination, from transfer-write at
\* the transfer stage to the access with which the render loop consumes the
\* buffer: vertex-attribute-read for the four vertex buffers, index-read for
\* the index buffer.
C21_Claim ==
    MeshRecorded =>
        /\ Cardinality(CopiesRecorded) = 5
        /\ \A i \in CopiesRecorded :
              /\ i + 1 \in DOMAIN cmds
              /\ cmds[i + 1] =
                    BufferBarrier(cmds[i].dst, "TRANSFER_WRITE",
                                  ConsumerAccess(cmds[i].dst),
                                  "TRANSFER", "VERTEX_INPUT")

TextureExecuted ==
    /\ upFn = "load_image_texture2d"
    /\ upPc \in {"submitted", "returned"}
    /\ gpuPos = Len(cmds)

\* max(1, n >> level)
ShiftedExtent(n, level) == Max(1, n \div (2 ^ level))

LevelExtentOf(level) ==
    <<ShiftedExtent(upDims[1], level), ShiftedExtent(upDims[2], level)>>

\* C25: for a base size w, h >= 1 the blit loop gives level L the extent
\* (max(1, w >> L), max(1, h >> L)), each axis halved on its own; the image
\* has exactly compute_mip_level_count(w, h) levels; the last level is 1x1
\* and no earlier level is.
C25_Theorem ==
    TextureExecuted =>
        /\ imageLevels = compute_mip_level_count(U32(upDims[1]), U32(upDims[2]))
        /\ Len(levelExtent) = imageLevels
        /\ \A level \in 0..(imageLevels - 1) :
              /\ levelExtent[level + 1] = LevelExtentOf(level)
              /\ level = imageLevels - 1 <=> levelExtent[level + 1] = <<1, 1>>
        /\ \A i \in BlitsRecorded :
              /\ cmds[i].srcExtent = LevelExtentOf(cmds[i].srcLevel)
              /\ cmds[i].dstExtent = LevelExtentOf(cmds[i].dstLevel)

\* 300x1: the height stays 1 while the width is halved down to 1
C25_Witness ==
    /\ TextureExecuted
    /\ upDims = <<300, 1>>
    /\ imageLevels = 9
    /\ levelExtent[2] = <<150, 1>>
    /\ levelExtent[8] = <<2, 1>>
    /\ levelExtent[9] = <<1, 1>>

(***************************************************************************)
(* main: the render loop.  recreate_swapchain is taken here by its         *)
(* outcome (it returns a window with a new chain, or it throws); how it    *)
(* builds that window is the subject of SpecWindow.                        *)
(***************************************************************************)
SwapchainResults ==
    {"VK_SUCCESS", "VK_SUBOPTIMAL_KHR", "VK_ERROR_OUT_OF_DATE_KHR",
     "VK_ERROR_DEVICE_LOST"}

windowRest ==
    <<caller, window, selectVars, cs, recreateVars, driverVars, failedCalls,
      exitCode, requestVars>>

\* what of the window's variables a recreation in the loop leaves alone
recreateRest ==
    <<caller, selectVars, cs, old, pre, recreations, failedCalls, exitCode,
      requestVars>>

Logged(name, res) == Append(log, <<name, res>>)

LoopThrows(fn) ==
    /\ pc' = "threw"
    /\ thrownBy' = fn

LoopGoesOn ==
    /\ pc' = pc
    /\ thrownBy' = thrownBy

\* a fence created with VK_FENCE_CREATE_SIGNALED_BIT
SignaledFences(n) == [i \in 1..n |-> "signaled"]

\* the command buffer of the scene pass and of the ImGui pass of an image
SceneBuffer(index) == <<"cbuffers", index>>
ImguiBuffer(index) == <<"imguicbuffers", index>>

\* std::size_t(imageIndex) < array.size()
InRange(index, size) == index < size

\* whether a submitted command buffer may still be executing
Execution(buffer, busy) == IF buffer \in busy THEN "in flight" ELSE "complete"

\* whether an object was created against the render pass that is current
PassOf(pass, current) == IF pass = current THEN "current" ELSE "replaced"

\* while (!glfwWindowShouldClose(window.window)) found the window closed
LoopExit ==
    /\ lpPc = "head"
    /\ MainReturn

\* recreate_swapchain returns or throws; after it returned, the rebuilding of
\* the render passes, depth buffer, pipelines and framebuffers may throw
RecreateOutcomes == {"returned", "threw", "returned, rebuild threw"}

\* the formats and extents a recreated chain may come with
LoopFormats == {"R8G8B8A8_SRGB", "B8G8R8A8_SRGB"}
LoopExtents == {Extent(1280, 720), Extent(640, 480)}

\* the window after recreate_swapchain returned
RecreatedWindow(w, chain, n, format, extent) ==
    LET images == [i \in 1..n |-> ImageOf(chain, i)]
    IN  [w EXCEPT
            !.swapchain = chain, !.swapchainFormat = format,
            !.swapchainExtent = extent, !.swapImages = images,
            !.swapViews = [i \in 1..n |-> ViewOf(images[i])]]

\* what vkDeviceWaitIdle leaves in flight: its result is not looked at
AfterWaitIdle(res, busy) == IF res = "VK_SUCCESS" THEN {} ELSE busy

\* if (changes.changedFormat) renderPass = create_render_pass(window)
RenderPassAfter(ch, pass) == IF ch.changedFormat THEN pass + 1 ELSE pass

\* if (changes.changedSize) pipe = create_default_pipeline(..., renderPass.handle, ...)
PipeAfter(ch, pass, oldPipe) == IF ch.changedSize THEN pass ELSE oldPipe

RecreateFlagAfter_StaysSet == TRUE

RecreateFlagAfter == FALSE

\* an iteration that finds recreateSwapchain set
LoopRecreate ==
    /\ pc = "active"
    /\ lpPc = "head"
    /\ iterations < MaxIterations
    /\ recreateSwapchain
    /\ iterations' = iterations + 1
    /\ \E idle \in DriverResults, outcome \in RecreateOutcomes :
        /\ log' = Append(Logged("vkDeviceWaitIdle", idle),
                         <<"recreate_swapchain", outcome>>)
        /\ inFlight' = AfterWaitIdle(idle, inFlight)
        /\ seen' = seen \cup
                {<<"recreate_swapchain",
                   IF inFlight' = {} THEN "complete" ELSE "in flight">>}
        /\ IF outcome = "threw"
           THEN /\ LoopThrows("recreate_swapchain")
                /\ UNCHANGED <<recreateSwapchain, window, changes, driverVars,
                               framebuffers, renderPass, pipe>>
           ELSE \E n \in 1..MaxImages, format \in LoopFormats, extent \in LoopExtents :
                  LET w == RecreatedWindow(window, nextChain, n, format, extent)
                      ch == SwapChangesOf(window.swapchainFormat,
                                          window.swapchainExtent, w)
                      pass == RenderPassAfter(ch, renderPass)
                  IN  /\ window' = w
                      /\ changes' = ch
                      /\ nextChain' = nextChain + 1
                      /\ drvImages' = n
                      /\ liveChains' = (liveChains \ {window.swapchain}) \cup {nextChain}
                      /\ liveViews' = (liveViews \ Range(window.swapViews))
                                          \cup Range(w.swapViews)
                      /\ renderPass' = pass
                      /\ pipe' = PipeAfter(ch, pass, pipe)
                      /\ IF outcome = "returned, rebuild threw"
                         THEN /\ LoopThrows("main")
                              /\ framebuffers' = [size |-> 0, renderPass |-> pass]
                              /\ UNCHANGED recreateSwapchain
                         ELSE /\ LoopGoesOn
                              /\ framebuffers' = [size |-> n, renderPass |-> pass]
                              /\ recreateSwapchain' = RecreateFlagAfter
    /\ lpPc' = "head"
    /\ UNCHANGED <<recreateRest, imageIndex, cbfences, imguicbfences, mipVars, ownVars,
                   uploadVars>>

\* an iteration that finds recreateSwapchain clear goes on to the acquisition
LoopBeginFrame ==
    /\ pc = "active"
    /\ lpPc = "head"
    /\ iterations < MaxIterations
    /\ ~recreateSwapchain
    /\ iterations' = iterations + 1
    /\ lpPc' = "acquire"
    /\ UNCHANGED <<pc, thrownBy, windowRest, recreateSwapchain, log, frameVars, mipVars,
                   ownVars, uploadVars>>

AcquireNeedsRecreate(res) ==
    "VK_SUBOPTIMAL_KHR" = res \/ "VK_ERROR_OUT_OF_DATE_KHR" = res

\* std::uint32_t imageIndex = 0, then the index of an image of the chain when
\* the acquisition succeeded
AcquireNextImage ==
    /\ pc = "active"
    /\ lpPc = "acquire"
    /\ \E res \in SwapchainResults :
        /\ log' = Logged("vkAcquireNextImageKHR", res)
        /\ IF AcquireNeedsRecreate(res)
           THEN /\ recreateSwapchain' = TRUE
                /\ lpPc' = "head"
                /\ imageIndex' = 0
                /\ LoopGoesOn
           ELSE IF "VK_SUCCESS" # res
           THEN /\ LoopThrows("main")
                /\ imageIndex' = 0
                /\ UNCHANGED <<lpPc, recreateSwapchain>>
           ELSE /\ lpPc' = "frame"
                /\ imageIndex' \in 0..(Len(window.swapImages) - 1)
                /\ LoopGoesOn
                /\ UNCHANGED recreateSwapchain
    /\ UNCHANGED <<windowRest, iterations, cbfences, imguicbfences, framebuffers,
                   renderPass, pipe, inFlight, seen, mipVars, ownVars, uploadVars>>

\* the calls of the body between the acquisition and the presentation, in
\* their order; each throws on a status other than VK_SUCCESS
FrameCalls ==
    <<"wait cbfences", "reset cbfences", "record cbuffers", "submit cbuffers",
      "wait imguicbfences", "reset imguicbfences", "record imguicbuffers",
      "submit imguicbuffers">>

CallAt(name) == CHOOSE k \in DOMAIN FrameCalls : FrameCalls[k] = name

\* the assertions on imageIndex; cbuffers is as long as cbfences and
\* imguicbuffers as long as imguicbfences, each pair being filled by one loop
AssertionsHold ==
    /\ InRange(imageIndex, Len(cbfences))
    /\ InRange(imageIndex, framebuffers.size)
    /\ InRange(imageIndex, Len(imguicbfences))

\* an index past the end of a vector: the assertion ends the program where
\* assertions are compiled in, the access is undefined where they are not
OutOfRangeOutcomes == {"aborted", "undefined"}

\* the fence after those of the calls on it that returned VK_SUCCESS
FenceAfter(state, waited, reset, submitted) ==
    IF submitted THEN "pending"
    ELSE IF reset THEN "unsignaled"
    ELSE IF waited THEN "signaled"
    ELSE state

\* the fence of the image, the recording of the two command buffers and
\* their submission; failAt is the call that fails, if any
RecordAndSubmit ==
    /\ pc = "active"
    /\ lpPc = "frame"
    /\ IF ~AssertionsHold
       THEN /\ \E outcome \in OutOfRangeOutcomes :
                  /\ pc' = outcome
                  /\ seen' = IF outcome = "undefined"
                             THEN seen \cup {<<"vkWaitForFences", "no such fence">>}
                             ELSE seen
            /\ UNCHANGED <<thrownBy, lpPc, log, cbfences, imguicbfences, inFlight>>
       ELSE \E failAt \in 1..(Len(FrameCalls) + 1) :
            LET i == imageIndex + 1
                made(name) == CallAt(name) < failAt
                res == IF failAt > Len(FrameCalls)
                       THEN "VK_SUCCESS" ELSE "VK_ERROR_OUT_OF_HOST_MEMORY"
                afterWait ==
                    IF made("wait cbfences")
                    THEN inFlight \ {SceneBuffer(imageIndex)} ELSE inFlight
                afterSubmit ==
                    IF made("submit cbuffers")
                    THEN afterWait \cup {SceneBuffer(imageIndex)} ELSE afterWait
                afterImguiWait ==
                    IF made("wait imguicbfences")
                    THEN afterSubmit \ {ImguiBuffer(imageIndex)} ELSE afterSubmit
            IN  /\ made("wait cbfences") => cbfences[i] # "unsignaled"
                /\ made("wait imguicbfences") => imguicbfences[i] # "unsignaled"
                /\ cbfences' =
                      [cbfences EXCEPT ![i] =
                          FenceAfter(@, made("wait cbfences"), made("reset cbfences"),
                                     made("submit cbuffers"))]
                /\ imguicbfences' =
                      [imguicbfences EXCEPT ![i] =
                          FenceAfter(@, made("wait imguicbfences"),
                                     made("reset imguicbfences"),
                                     made("submit imguicbuffers"))]
                /\ inFlight' =
                      IF made("submit imguicbuffers")
                      THEN afterImguiWait \cup {ImguiBuffer(imageIndex)}
                      ELSE afterImguiWait
                /\ seen' = seen
                      \cup {<<"vkWaitForFences", cbfences[i]>>}
                      \cup (IF made("reset cbfences")
                            THEN {<<"record", Execution(SceneBuffer(imageIndex), afterWait)>>,
                                  <<"pipeline", PassOf(pipe, renderPass)>>,
                                  <<"framebuffer",
                                    PassOf(framebuffers.renderPass, renderPass)>>}
                            ELSE {})
                      \cup (IF made("submit cbuffers")
                            THEN {<<"vkWaitForFences", imguicbfences[i]>>}
                            ELSE {})
                      \cup (IF made("reset imguicbfences")
                            THEN {<<"record",
                                    Execution(ImguiBuffer(imageIndex), afterImguiWait)>>}
                            ELSE {})
                /\ IF res # "VK_SUCCESS"
                   THEN /\ LoopThrows("main")
                        /\ log' = Logged("record", res)
                        /\ UNCHANGED lpPc
                   ELSE /\ LoopGoesOn
                        /\ log' = Append(Logged("record", res),
                                         <<"submit_commands", res>>)
                        /\ lpPc' = "present"
    /\ UNCHANGED <<windowRest, recreateSwapchain, iterations, imageIndex, framebuffers,
                   renderPass, pipe, mipVars, ownVars, uploadVars>>

PresentNeedsRecreate_OnlyOutOfDate(res) == "VK_ERROR_OUT_OF_DATE_KHR" = res

PresentNeedsRecreate(res) ==
    "VK_SUBOPTIMAL_KHR" = res \/ "VK_ERROR_OUT_OF_DATE_KHR" = res

present_results ==
    /\ pc = "active"
    /\ lpPc = "present"
    /\ \E res \in SwapchainResults :
        /\ log' = Logged("vkQueuePresentKHR", res)
        /\ IF PresentNeedsRecreate(res)
           THEN /\ recreateSwapchain' = TRUE
                /\ lpPc' = "wait"
                /\ LoopGoesOn
           ELSE IF "VK_SUCCESS" # res
           THEN /\ LoopThrows("present_results")
                /\ UNCHANGED <<lpPc, recreateSwapchain>>
           ELSE /\ lpPc' = "wait"
                /\ LoopGoesOn
                /\ UNCHANGED recreateSwapchain
    /\ UNCHANGED <<windowRest, iterations, frameVars, mipVars, ownVars, uploadVars>>

\* the command buffers a signaled ImGui fence of an image shows complete: the
\* ImGui submission, and the scene submission whose semaphore it waited for
FrameWaitCompletes_Nothing(index) == {}

FrameWaitCompletes(index) == {SceneBuffer(index), ImguiBuffer(index)}

\* the wait for the fence of the submitted commands ends the iteration
WaitForFrame ==
    /\ pc = "active"
    /\ lpPc = "wait"
    /\ \E res \in DriverResults :
        /\ log' = Logged("vkWaitForFences", res)
        /\ seen' = seen \cup {<<"vkWaitForFences", imguicbfences[imageIndex + 1]>>}
        /\ IF res # "VK_SUCCESS"
           THEN /\ LoopThrows("main")
                /\ UNCHANGED <<lpPc, imguicbfences, cbfences, inFlight>>
           ELSE /\ imguicbfences[imageIndex + 1] # "unsignaled"
                /\ LoopGoesOn
                /\ lpPc' = "head"
                /\ imguicbfences' = [imguicbfences EXCEPT ![imageIndex + 1] = "signaled"]
                /\ cbfences' = cbfences
                /\ inFlight' = inFlight \ FrameWaitCompletes(imageIndex)
    /\ UNCHANGED <<windowRest, recreateSwapchain, iterations, imageIndex, framebuffers,
                   renderPass, pipe, mipVars, ownVars, uploadVars>>

(***************************************************************************)
(* The render loop starts from the window make_vulkan_window returned for  *)
(* an adapter whose family 0 does graphics and presentation, with the      *)
(* per-image objects main creates before the loop.                         *)
(***************************************************************************)
LoopWindow(n) ==
    LET images == [i \in 1..n |-> ImageOf(1, i)]
    IN  [NewWindow EXCEPT
            !.physicalDevice = 1, !.device = 1,
            !.graphicsQueue = DeviceQueue(0, 0), !.presentQueue = DeviceQueue(0, 0),
            !.swapchain = 1, !.swapchainFormat = "R8G8B8A8_SRGB",
            !.swapchainExtent = Extent(1280, 720),
            !.swapImages = images,
            !.swapViews = [i \in 1..n |-> ViewOf(images[i])]]

WindowActive ==
    /\ pc = "active"
    /\ caller = "make_vulkan_window"
    /\ \E n \in 1..MaxImages :
          /\ window = LoopWindow(n)
          /\ drvImages = n
          /\ liveViews = Range(LoopWindow(n).swapViews)
    /\ numDevices = 0
    /\ devIdx = 0
    /\ bestScore = -1
    /\ bestDevice = VK_NULL_HANDLE
    /\ scored = <<>>
    /\ physProps = NoProps
    /\ cs = NoCs
    /\ old = NoOld
    /\ pre = NewWindow
    /\ changes = NoChanges
    /\ recreations = 0
    /\ nextChain = 2
    /\ liveChains = {1}
    /\ failedCalls = {}
    /\ thrownBy = "none"
    /\ exitCode = -1
    /\ deviceInfo = DeviceQueueInfos(<<0>>)
    /\ chainInfos = <<ChainInfo([NoCs EXCEPT !.queueFamilyIndices = <<0>>],
                                VK_NULL_HANDLE)>>

\* the objects main creates before the loop: one command buffer and one
\* signaled fence for every framebuffer, for the scene and for ImGui
FirstRenderPass == 1

InitLoop ==
    /\ WindowActive
    /\ MipIdle
    /\ UploadIdle
    /\ OwnIdle
    /\ lpPc = "head"
    /\ recreateSwapchain = FALSE
    /\ iterations = 0
    /\ log = <<>>
    /\ imageIndex = 0
    /\ renderPass = FirstRenderPass
    /\ pipe = renderPass
    /\ framebuffers = [size |-> Len(window.swapViews), renderPass |-> renderPass]
    /\ cbfences = SignaledFences(framebuffers.size)
    /\ imguicbfences = SignaledFences(framebuffers.size)
    /\ inFlight = {}
    /\ seen = {}

NextLoop ==
    \/ LoopExit
    \/ LoopRecreate
    \/ LoopBeginFrame
    \/ AcquireNextImage
    \/ RecordAndSubmit
    \/ present_results
    \/ WaitForFrame
    \/ MainCatch

SpecLoop == InitLoop /\ [][NextLoop]_vars

(***************************************************************************)
(* Properties of the render loop (SpecLoop).                               *)
(***************************************************************************)
IsCall(i, name) == log[i][1] = name
SwapchainCall(i) == IsCall(i, "vkAcquireNextImageKHR") \/ IsCall(i, "vkQueuePresentKHR")
AsksRecreate(i) ==
    SwapchainCall(i) /\ log[i][2] \in {"VK_SUBOPTIMAL_KHR", "VK_ERROR_OUT_OF_DATE_KHR"}
HardError(i) ==
    /\ SwapchainCall(i)
    /\ log[i][2] \notin {"VK_SUCCESS", "VK_SUBOPTIMAL_KHR", "VK_ERROR_OUT_OF_DATE_KHR"}
Recreates(i) == IsCall(i, "recreate_swapchain")
Between(i, j) == {k \in DOMAIN log : i < k /\ k < j}
\* the session ends by an error: main's catch block returns 1
SessionEnded == pc = "threw" \/ (pc = "terminated" /\ exitCode = 1)

\* C13: in the render loop a recreation of the swapchain is triggered only by
\* VK_SUBOPTIMAL_KHR or VK_ERROR_OUT_OF_DATE_KHR from vkAcquireNextImageKHR or
\* vkQueuePresentKHR, these two results do not end the session, and every
\* other result than VK_SUCCESS of the two calls throws and ends the session.
C13_Theorem ==
    /\ \A i \in DOMAIN log :
          Recreates(i) =>
              \E j \in 1..(i - 1) :
                  AsksRecreate(j) /\ \A k \in Between(j, i) : ~Recreates(k)
    /\ \A i \in DOMAIN log :
          AsksRecreate(i) =>
              /\ i = Len(log) => (~SessionEnded /\ recreateSwapchain)
              /\ i < Len(log) => log[i + 1][1] \in {"vkWaitForFences", "vkDeviceWaitIdle"}
    /\ \A i \in DOMAIN log :
          HardError(i) =>
              /\ i = Len(log)
              /\ SessionEnded
              /\ thrownBy \in {"main", "present_results"}

C13_Witness ==
    /\ pc = "terminated"
    /\ exitCode = 1
    /\ \E i \in DOMAIN log : Recreates(i) /\ log[i][2] = "returned"
    /\ log[1] = <<"vkAcquireNextImageKHR", "VK_SUBOPTIMAL_KHR">>
    /\ log[Len(log)] = <<"vkAcquireNextImageKHR", "VK_ERROR_DEVICE_LOST">>

PresentSuboptimal(i) == log[i] = <<"vkQueuePresentKHR", "VK_SUBOPTIMAL_KHR">>
Submits(i) == IsCall(i, "submit_commands")
Acquires(i) == IsCall(i, "vkAcquireNextImageKHR")

\* C14: a suboptimal vkQueuePresentKHR is followed by exactly one call of
\* recreate_swapchain, made at the start of the next iteration and before any
\* further acquisition, after which the flag is clear; the presented frame is
\* not recorded or submitted again.
C14_Theorem ==
    /\ lpPc = "acquire" => ~recreateSwapchain
    /\ \A i \in DOMAIN log :
          PresentSuboptimal(i) =>
              \A a \in DOMAIN log :
                  (i < a /\ Acquires(a) /\ \A k \in Between(i, a) : ~Acquires(k)) =>
                      /\ Cardinality({k \in Between(i, a) : Recreates(k)}) = 1
                      /\ \A k \in Between(i, a) : ~Submits(k) /\ ~IsCall(k, "record")
    /\ \A i \in DOMAIN log :
          (PresentSuboptimal(i) /\ i + 1 < Len(log)) =>
              /\ log[i + 1] = <<"vkWaitForFences", "VK_SUCCESS">>
              /\ IsCall(i + 2, "vkDeviceWaitIdle")
              /\ Recreates(i + 3)
    /\ (log # <<>> /\ log[Len(log)] = <<"recreate_swapchain", "returned">> /\ pc = "active")
          => ~recreateSwapchain
    /\ \A i \in DOMAIN log :
          Submits(i) => Acquires(i - 2) /\ log[i - 2][2] = "VK_SUCCESS"

C14_Witness ==
    /\ Len(log) = 8
    /\ PresentSuboptimal(4)
    /\ log[7] = <<"recreate_swapchain", "returned">>
    /\ Acquires(8)
    /\ ~recreateSwapchain

(***************************************************************************)
(* Properties of the frames of the render loop (SpecLoop).                 *)
(***************************************************************************)
AtFrame == pc = "active" /\ lpPc = "frame"

\* C26: after any number of recreations, the index a successful acquisition
\* returned is smaller than the number of scene command buffers and fences,
\* of ImGui command buffers and fences and of framebuffers: no assertion on
\* imageIndex fails and no per-image array is indexed out of range.
C26_Claim ==
    /\ AtFrame =>
          /\ imageIndex < Len(cbfences)
          /\ imageIndex < Len(imguicbfences)
          /\ imageIndex < framebuffers.size
    /\ pc \notin OutOfRangeOutcomes

\* C27: whenever the loop records a frame, the pipelines and the framebuffer
\* it uses were created against the render pass that is current: after a
\* recreation that reports changedFormat the render passes, the pipelines and
\* the framebuffers are all rebuilt before the next frame is recorded.
C27_Claim ==
    /\ <<"pipeline", "replaced">> \notin seen
    /\ <<"framebuffer", "replaced">> \notin seen
    /\ AtFrame => (pipe = renderPass /\ framebuffers.renderPass = renderPass)

\* the part of C27 that the loop keeps: the framebuffers
FramebuffersCurrent ==
    /\ <<"framebuffer", "replaced">> \notin seen
    /\ AtFrame => framebuffers.renderPass = renderPass

\* the states in which the loop found the fences it waited for
WaitsSeen == {obs[2] : obs \in {o \in seen : o[1] = "vkWaitForFences"}}

\* no fence is left reset without a submission that will signal it
NoFenceLeftReset ==
    pc = "active" =>
        /\ \A i \in DOMAIN cbfences : cbfences[i] # "unsignaled"
        /\ \A i \in DOMAIN imguicbfences : imguicbfences[i] # "unsignaled"

\* C28: every wait on a per-image fence (scene or ImGui) finds that fence
\* signaled or with a pending submission that will signal it; on every path
\* that does not throw a reset fence is submitted before the loop goes on; no
\* command buffer is recorded again while its last submission may be pending.
C28_Claim ==
    /\ WaitsSeen \subseteq {"signaled", "pending"}
    /\ NoFenceLeftReset
    /\ <<"record", "in flight">> \notin seen

\* what holds of the waits whose index is within the vectors of fences
WaitsInRangeSound ==
    /\ WaitsSeen \subseteq {"signaled", "pending", "no such fence"}
    /\ NoFenceLeftReset
    /\ <<"record", "in flight">> \notin seen

\* C29: the loop calls recreate_swapchain only when no submitted command
\* buffer may still be executing, and after vkDeviceWaitIdle has returned
\* since the last submission and presentation.
C29_Theorem ==
    /\ <<"recreate_swapchain", "in flight">> \notin seen
    /\ (pc = "active" /\ lpPc = "head") => inFlight = {}
    /\ \A i \in DOMAIN log :
          Recreates(i) => (i > 1 /\ IsCall(i - 1, "vkDeviceWaitIdle"))

\* a frame was submitted and presented, vkDeviceWaitIdle failed, and the
\* swapchain was recreated
C29_Witness ==
    /\ \E i \in DOMAIN log :
          /\ Recreates(i)
          /\ log[i][2] = "returned"
          /\ log[i - 1] = <<"vkDeviceWaitIdle", "VK_ERROR_OUT_OF_HOST_MEMORY">>
          /\ \E j \in 1..(i - 1) : Submits(j)
    /\ <<"recreate_swapchain", "complete">> \in seen
    /\ window.swapchain = 2

(***************************************************************************)
(* VulkanWindow and Image as owners of native handles: construction, move  *)
(* construction, move assignment and destruction of up to MaxObjects       *)
(* objects of one class, MaxOwners of them constructed with handles.       *)
(***************************************************************************)
OwnedClasses == {"VulkanWindow", "Image"}
Objects == 1..MaxObjects

\* the program creates one window (the destructor of VulkanWindow unloads
\* GLFW and relies on it) and any number of images
MaxWindows == 1
OwnersAllowed(aClass) == IF aClass = "VulkanWindow" THEN MaxWindows ELSE MaxOwners

NativeHandle(aKind, aId, aIndex) == [kind |-> aKind, id |-> aId, n |-> aIndex]

WindowHandles ==
    {NativeHandle(k, id, 0) : k \in {"window", "surface", "swapchain", "device"},
                              id \in 1..MaxWindows}
        \cup {NativeHandle("view", id, i) : id \in 1..MaxWindows, i \in 1..MaxImages}
ImageHandles == {NativeHandle("image", id, 0) : id \in 1..MaxOwners}
HandlesOf(aClass) == IF aClass = "VulkanWindow" THEN WindowHandles ELSE ImageHandles

\* VulkanWindow(): every handle member is VK_NULL_HANDLE, the vectors empty
NullWindowMembers ==
    [window |-> VK_NULL_HANDLE, surface |-> VK_NULL_HANDLE,
     swapchain |-> VK_NULL_HANDLE, swapViews |-> <<>>, device |-> VK_NULL_HANDLE]

\* Image(): image, allocation and mAllocator are VK_NULL_HANDLE
NullImageMembers ==
    [image |-> VK_NULL_HANDLE, allocation |-> VK_NULL_HANDLE,
     mAllocator |-> VK_NULL_HANDLE]

NullMembers(aClass) ==
    IF aClass = "VulkanWindow" THEN NullWindowMembers ELSE NullImageMembers

Object(aState, aMembers) == [state |-> aState, m |-> aMembers]

\* the window make_vulkan_window returns: its GLFW window, surface, device,
\* swapchain and one view for each image
MadeWindowMembers(id) ==
    [window |-> id, surface |-> id, swapchain |-> id,
     swapViews |-> [i \in 1..MaxImages |-> NativeHandle("view", id, i)],
     device |-> id]

\* Image( aAllocator, aImage, aAllocation )
MadeImageMembers(id) == [image |-> id, allocation |-> id, mAllocator |-> 1]

Unborn(o) == objs[o].state = "unborn"
Alive(o) == objs[o].state = "live"

ReleaseCall(aName, aHandle) == [call |-> aName, handle |-> aHandle]

\* the count of release calls a handle has received; 2 stands for "twice or more"
Released(rel, hs) ==
    [h \in DOMAIN rel |-> IF h \in hs THEN Min(rel[h] + 1, 2) ELSE rel[h]]

DefaultConstruct(aClass) ==
    /\ ownKind = aClass
    /\ \E o \in Objects :
        /\ Unborn(o)
        /\ objs' = [objs EXCEPT ![o] = Object("live", NullMembers(aClass))]
    /\ UNCHANGED <<ownKind, owners, released, calls>>
    /\ UNCHANGED <<windowVars, mipVars, uploadVars, loopVars>>

ConstructOwner(aClass) ==
    /\ ownKind = aClass
    /\ owners < OwnersAllowed(aClass)
    /\ \E o \in Objects :
        /\ Unborn(o)
        /\ objs' = [objs EXCEPT ![o] =
                Object("live", IF aClass = "VulkanWindow"
                               THEN MadeWindowMembers(owners + 1)
                               ELSE MadeImageMembers(owners + 1))]
    /\ owners' = owners + 1
    /\ UNCHANGED <<ownKind, released, calls>>
    /\ UNCHANGED <<windowVars, mipVars, uploadVars, loopVars>>

\* VulkanContext( VulkanContext&& ) and operator=( VulkanContext&& ): the
\* base class hands its device over like the members of VulkanWindow
ContextMovedFrom == VK_NULL_HANDLE
ContextMoveAssigned(aThis, aOther) == [this |-> aOther.device, other |-> aThis.device]

\* VulkanWindow( VulkanWindow&& aOther ): what the new object holds, and
\* what is left in aOther
WindowMoveConstructed_CopiesChain(aOther) ==
    [this |-> aOther,
     other |-> [window |-> VK_NULL_HANDLE, surface |-> VK_NULL_HANDLE,
                swapchain |-> aOther.swapchain, swapViews |-> <<>>,
                device |-> ContextMovedFrom]]

WindowMoveConstructed(aOther) ==
    [this |-> aOther,
     other |-> [window |-> VK_NULL_HANDLE, surface |-> VK_NULL_HANDLE,
                swapchain |-> VK_NULL_HANDLE, swapViews |-> <<>>,
                device |-> ContextMovedFrom]]

\* VulkanWindow::operator=( VulkanWindow&& aOther ): std::swap of each member
WindowMoveAssigned(aThis, aOther) ==
    [this |-> [window |-> aOther.window, surface |-> aOther.surface,
               swapchain |-> aOther.swapchain, swapViews |-> aOther.swapViews,
               device |-> ContextMoveAssigned(aThis, aOther).this],
     other |-> [window |-> aThis.window, surface |-> aThis.surface,
                swapchain |-> aThis.swapchain, swapViews |-> aThis.swapViews,
                device |-> ContextMoveAssigned(aThis, aOther).other]]

\* Image( Image&& aOther ): std::exchange of each member
ImageMoveConstructed(aOther) == [this |-> aOther, other |-> NullImageMembers]

\* Image::operator=( Image&& aOther ): std::swap of each member
ImageMoveAssigned(aThis, aOther) == [this |-> aOther, other |-> aThis]

MoveConstruct(aClass) ==
    /\ ownKind = aClass
    /\ \E o \in Objects, other \in Objects :
        /\ Unborn(o)
        /\ Alive(other)
        /\ LET moved == IF aClass = "VulkanWindow"
                        THEN WindowMoveConstructed(objs[other].m)
                        ELSE ImageMoveConstructed(objs[other].m)
           IN  objs' = [objs EXCEPT ![o] = Object("live", moved.this),
                                    ![other] = Object("live", moved.other)]
    /\ UNCHANGED <<ownKind, owners, released, calls>>
    /\ UNCHANGED <<windowVars, mipVars, uploadVars, loopVars>>

MoveAssign(aClass) ==
    /\ ownKind = aClass
    /\ \E o \in Objects, other \in Objects :
        /\ o # other
        /\ Alive(o)
        /\ Alive(other)
        /\ LET moved == IF aClass = "VulkanWindow"
                        THEN WindowMoveAssigned(objs[o].m, objs[other].m)
                        ELSE ImageMoveAssigned(objs[o].m, objs[other].m)
           IN  objs' = [objs EXCEPT ![o] = Object("live", moved.this),
                                    ![other] = Object("live", moved.other)]
    /\ UNCHANGED <<ownKind, owners, released, calls>>
    /\ UNCHANGED <<windowVars, mipVars, uploadVars, loopVars>>

NoHandle == NativeHandle("none", VK_NULL_HANDLE, 0)

\* VulkanContext::~VulkanContext runs after the body of ~VulkanWindow
ContextDestructorCalls(m) ==
    IF VK_NULL_HANDLE # m.device
    THEN <<ReleaseCall("vkDestroyDevice", NativeHandle("device", m.device, 0))>>
    ELSE <<>>

WindowDestructorCalls_WindowFirst(m) ==
    [i \in 1..Len(m.swapViews) |-> ReleaseCall("vkDestroyImageView", m.swapViews[i])]
      \o (IF VK_NULL_HANDLE # m.swapchain
          THEN <<ReleaseCall("vkDestroySwapchainKHR",
                             NativeHandle("swapchain", m.swapchain, 0))>>
          ELSE <<>>)
      \o (IF m.window # VK_NULL_HANDLE
          THEN <<ReleaseCall("glfwDestroyWindow", NativeHandle("window", m.window, 0)),
                 ReleaseCall("glfwTerminate", NoHandle)>>
          ELSE <<>>)
      \o (IF VK_NULL_HANDLE # m.surface
          THEN <<ReleaseCall("vkDestroySurfaceKHR",
                             NativeHandle("surface", m.surface, 0))>>
          ELSE <<>>)
      \o ContextDestructorCalls(m)

\* VulkanWindow::~VulkanWindow
WindowDestructorCalls(m) ==
    [i \in 1..Len(m.swapViews) |-> ReleaseCall("vkDestroyImageView", m.swapViews[i])]
      \o (IF VK_NULL_HANDLE # m.swapchain
          THEN <<ReleaseCall("vkDestroySwapchainKHR",
                             NativeHandle("swapchain", m.swapchain, 0))>>
          ELSE <<>>)
      \o (IF VK_NULL_HANDLE # m.surface
          THEN <<ReleaseCall("vkDestroySurfaceKHR",
                             NativeHandle("surface", m.surface, 0))>>
          ELSE <<>>)
      \o (IF m.window # VK_NULL_HANDLE
          THEN <<ReleaseCall("glfwDestroyWindow", NativeHandle("window", m.window, 0)),
                 ReleaseCall("glfwTerminate", NoHandle)>>
          ELSE <<>>)
      \o ContextDestructorCalls(m)

\* Image::~Image
ImageDestructorCalls(m) ==
    IF VK_NULL_HANDLE # m.image
    THEN IF VK_NULL_HANDLE # m.mAllocator /\ VK_NULL_HANDLE # m.allocation
         THEN <<ReleaseCall("vmaDestroyImage", NativeHandle("image", m.image, 0))>>
         ELSE <<ReleaseCall("assert", NoHandle)>>
    ELSE <<>>

\* glfwTerminate destroys every window that is still open
AfterTerminate(rel) ==
    [h \in DOMAIN rel |->
        IF h.kind = "window" /\ h.id <= owners /\ rel[h] = 0 THEN 1 ELSE rel[h]]

Destroy(aClass) ==
    /\ ownKind = aClass
    /\ \E o \in Objects :
        /\ Alive(o)
        /\ objs' = [objs EXCEPT ![o].state = "destroyed"]
        /\ LET made == IF aClass = "VulkanWindow"
                       THEN WindowDestructorCalls(objs[o].m)
                       ELSE ImageDestructorCalls(objs[o].m)
               rel == Released(released, {made[i].handle : i \in DOMAIN made})
           IN  /\ calls' = made
               /\ released' =
                    IF \E i \in DOMAIN made : made[i].call = "glfwTerminate"
                    THEN AfterTerminate(rel) ELSE rel
    /\ UNCHANGED <<ownKind, owners>>
    /\ UNCHANGED <<windowVars, mipVars, uploadVars, loopVars>>

VulkanWindowDefault == DefaultConstruct("VulkanWindow")
VulkanWindowMake == ConstructOwner("VulkanWindow")
VulkanWindowMove == MoveConstruct("VulkanWindow")
VulkanWindowMoveAssign == MoveAssign("VulkanWindow")
VulkanWindowDestroy == Destroy("VulkanWindow")
ImageDefault == DefaultConstruct("Image")
ImageCreate == ConstructOwner("Image")
ImageMove == MoveConstruct("Image")
ImageMoveAssign == MoveAssign("Image")
ImageDestroy == Destroy("Image")

InitOwn ==
    /\ WindowStart
    /\ MipIdle
    /\ UploadIdle
    /\ LoopIdle
    /\ ownKind \in OwnedClasses
    /\ objs = [o \in Objects |-> Object("unborn", NullMembers(ownKind))]
    /\ owners = 0
    /\ released = [h \in HandlesOf(ownKind) |-> 0]
    /\ calls = <<>>

NextOwn ==
    \/ VulkanWindowDefault
    \/ VulkanWindowMake
    \/ VulkanWindowMove
    \/ VulkanWindowMoveAssign
    \/ VulkanWindowDestroy
    \/ ImageDefault
    \/ ImageCreate
    \/ ImageMove
    \/ ImageMoveAssign
    \/ ImageDestroy

SpecOwn == InitOwn /\ [][NextOwn]_vars

(***************************************************************************)
(* Properties of the owners (SpecOwn).                                     *)
(***************************************************************************)
Made(h) == h.id <= owners

NonNull(aKind, aId) ==
    IF aId = VK_NULL_HANDLE THEN {} ELSE {NativeHandle(aKind, aId, 0)}

\* the handles an object holds in its members
Holds(o) ==
    LET m == objs[o].m
    IN  IF ownKind = "VulkanWindow"
        THEN NonNull("window", m.window) \cup NonNull("surface", m.surface)
               \cup NonNull("swapchain", m.swapchain) \cup Range(m.swapViews)
        ELSE NonNull("image", m.image)

Holders(h) == {o \in Objects : Alive(o) /\ h \in Holds(o)}

OwnedHandles == {h \in DOMAIN released : h.kind # "device"}

NoneAlive == \A o \in Objects : ~Alive(o)

WindowDestroyed == ownKind = "VulkanWindow" /\ calls # <<>>

InOrder(Rank(_)) ==
    \A i, j \in DOMAIN calls :
        Rank(calls[i].call) < Rank(calls[j].call) => i < j

\* C24 as the spec states it: a VulkanWindow releases its resources in the
\* order views, chain, device, surface, window.
ClaimedRank(aCall) ==
    CASE aCall = "vkDestroyImageView" -> 1
      [] aCall = "vkDestroySwapchainKHR" -> 2
      [] aCall = "vkDestroyDevice" -> 3
      [] aCall = "vkDestroySurfaceKHR" -> 4
      [] OTHER -> 5

C24_Claim == WindowDestroyed => InOrder(ClaimedRank)

\* C24 as amended: every view is destroyed before the chain, the chain
\* before the surface and the surface before the window; the logical device
\* is destroyed by none of these steps but after them, by the destructor of
\* the base class.
DestructorRank(aCall) ==
    CASE aCall = "vkDestroyImageView" -> 1
      [] aCall = "vkDestroySwapchainKHR" -> 2
      [] aCall = "vkDestroySurfaceKHR" -> 3
      [] aCall = "glfwDestroyWindow" -> 4
      [] aCall = "glfwTerminate" -> 5
      [] OTHER -> 6

C24_Theorem == WindowDestroyed => InOrder(DestructorRank)

\* the window that owned everything was destroyed
C24_Witness ==
    /\ WindowDestroyed
    /\ Len(calls) = MaxImages + 5
    /\ calls[1].call = "vkDestroyImageView"
    /\ calls[Len(calls)].call = "vkDestroyDevice"
    /\ \A h \in OwnedHandles : released[h] = 1

(***************************************************************************)
(* create_swapchain: the image count, for whatever minImageCount and       *)
(* maxImageCount the capabilities hold, a declared maximum below the       *)
(* minimum and the ends of the 32-bit range included.                      *)
(***************************************************************************)
ImageCounts ==
    {U32(n) : n \in 0..(MaxImages + 1)}
        \cup {<<0, HalfWord - 1>>, <<1, 0>>, <<HalfWord - 1, HalfWord - 2>>, UINT32_MAX}

AnyCaps ==
    {[NoCaps EXCEPT !.minImageCount = lo, !.maxImageCount = hi] :
        lo \in ImageCounts, hi \in ImageCounts}

InitCount ==
    /\ MipIdle
    /\ UploadIdle
    /\ LoopIdle
    /\ OwnIdle
    /\ pc = "cs_image_count"
    /\ caller = "make_vulkan_window"
    /\ window = NewWindow
    /\ numDevices = 0
    /\ devIdx = 0
    /\ bestScore = -1
    /\ bestDevice = VK_NULL_HANDLE
    /\ scored = <<>>
    /\ physProps = NoProps
    /\ cs \in {[NoCs EXCEPT !.caps = c] : c \in AnyCaps}
    /\ old = NoOld
    /\ pre = NewWindow
    /\ changes = NoChanges
    /\ recreations = 0
    /\ nextChain = 1
    /\ drvImages = 0
    /\ liveChains = {}
    /\ liveViews = {}
    /\ failedCalls = {}
    /\ thrownBy = "none"
    /\ exitCode = -1
    /\ deviceInfo = <<>>
    /\ chainInfos = <<>>

\* std::uint32_t imageCount = 2 and the two ifs that follow
CsImageCount ==
    /\ pc = "cs_image_count"
    /\ pc' = "cs_image_count_done"
    /\ cs' = [cs EXCEPT !.imageCount = PickImageCount(cs.caps)]
    /\ UNCHANGED <<caller, window, selectVars, recreateVars, driverVars, failedCalls,
                   thrownBy, exitCode, requestVars, mipVars, ownVars, uploadVars,
                   loopVars>>

NextCount == CsImageCount

SpecCount == InitCount /\ [][NextCount]_vars

(***************************************************************************)
(* Properties of the image count (SpecCount).                              *)
(***************************************************************************)
ImageCountPicked == pc = "cs_image_count_done"

\* C30 as stated: the image count create_swapchain requests is never below
\* minImageCount, whatever 32-bit minImageCount and maxImageCount are reported.
C30_Claim ==
    ImageCountPicked => U32LessEq(cs.caps.minImageCount, cs.imageCount)

\* minImageCount + 1 wraps around to 0
CountWraps == cs.caps.minImageCount = UINT32_MAX

\* a maximum is declared and it is smaller than the minimum
MaximumBelowMinimum ==
    /\ U32Less(U32(0), cs.caps.maxImageCount)
    /\ U32Less(cs.caps.maxImageCount, cs.caps.minImageCount)

\* C30, amended: the requested image count is never below minImageCount when
\* maxImageCount is 0 or not below minImageCount and minImageCount + 1 does
\* not wrap; with a declared maximum below the minimum the request is that
\* maximum; when minImageCount + 1 wraps to 0 the request is 2, or 1 when
\* maxImageCount is 1.
C30_Theorem ==
    ImageCountPicked =>
        /\ (~CountWraps /\ ~MaximumBelowMinimum) =>
              U32LessEq(cs.caps.minImageCount, cs.imageCount)
        /\ (~CountWraps /\ MaximumBelowMinimum) => cs.imageCount = cs.caps.maxImageCount
        /\ CountWraps =>
              cs.imageCount = IF cs.caps.maxImageCount = U32(1) THEN U32(1) ELSE U32(2)

\* the minimum is reported as 2 with no maximum declared, and 3 images are asked
C30_Witness ==
    /\ ImageCountPicked
    /\ cs.caps.minImageCount = U32(2)
    /\ cs.caps.maxImageCount = U32(0)
    /\ cs.imageCount = U32(3)

====
